----------------------------- MODULE Terraform -----------------------------
(***************************************************************************)
(* The Terraform analyzer.  A run loads the policy file, builds the        *)
(* analyzer from the embedded catalog and the file's terraform_types,      *)
(* which may only tighten it, reads the plans of a changeset and answers   *)
(* every resource change in them by evidence on the resource, then by the  *)
(* catalog, else by UNKNOWN.  The types it could not classify are printed  *)
(* as one block for the policy file; a user puts it there, as it is        *)
(* printed or entry by entry, and runs again.                              *)
(*                                                                         *)
(* Of an attribute the model keeps what the code asks of its value; that   *)
(* of a block is what its `enabled` says, or "bare" without one.           *)
(***************************************************************************)
EXTENDS Integers, FiniteSets, Sequences, SequencesExt

CONSTANTS
    Words,       \* what a policy file may have for a class
    Upper,       \* Upper[w]: word w in upper case
    Types,       \* resource types
    Embedded,    \* Embedded[t]: the class the catalog gives t, or "none"
    PolicyFiles, \* what the policy file may be when a user begins
    NumFiles,    \* files of the changeset, numbered in path order
    Claimed,     \* those named *.tfplan.json or given to --terraform-plan
    Plans        \* Plans[f]: what file f may contain, as [ok, changes]

Classes == {"STATEFUL", "STATELESS"}

\* The actions Terraform writes into a plan.
PlanActions ==
    {<<"no-op">>, <<"create">>, <<"read">>, <<"update">>, <<"delete">>,
     <<"delete", "create">>, <<"create", "delete">>}

Files   == 1 .. NumFiles
Entries == [type : Types \cup {""}, class : Words]   \* of terraform_types, as written
Loaded  == [type : Types, class : Classes]           \* and as the loader lets them through

\* Of a policy file: whether it says `version: 1`, and the list behind each
\* terraform_types: key in it.  No file is the one that has neither.
Documents == [version : BOOLEAN, lists : Seq(Seq(Entries))]
NoFile == [version |-> FALSE, lists |-> << >>]

ASSUME TypesAssumption ==
    /\ "" \notin Types /\ IsFiniteSet(Types)
    /\ Embedded \in [Types -> Classes \cup {"none"}]
    /\ Classes \subseteq Words /\ Upper \in [Words -> Words] /\ \A c \in Classes : Upper[c] = c
    /\ PolicyFiles \subseteq Documents
ASSUME FilesAssumption == NumFiles \in Nat /\ Claimed \subseteq Files
ASSUME PlansAssumption ==
    \A f \in Files : \A p \in Plans[f] :
        /\ p.ok \in BOOLEAN
        /\ \A c \in p.changes : c.mode \in {"managed", "data"} /\ c.type \in Types /\ c.actions \in PlanActions

VARIABLES
    file,      \* the policy file
    policy,    \* the terraform_types of the policy that was loaded
    line,      \* the one to be merged next
    catalog,   \* the resolved catalog
    removed,   \* files the change removes
    plan,      \* plan[f]: what f was found to contain, once it was read
    at,        \* the file to be read next
    findings,
    added,     \* the user put the printed block into the policy file
    phase

vars == <<file, policy, line, catalog, removed, plan, at, findings, added, phase>>

-----------------------------------------------------------------------------
(* Evidence. *)

\* Attributes that mark what has them as holding something, whatever its type.
StatefulEvidence ==
    {"allocated_storage", "backup_retention_period", "deletion_protection", "final_snapshot_identifier",
     "kms_key_id", "point_in_time_recovery", "snapshot_identifier", "storage_encrypted", "versioning",
     "ephemeral_block_device", "private_key"}

DisabledSafety == {"force_destroy", "skip_final_snapshot"}

\* What a side of a change says of an attribute.
Value(side, key) == IF key \in DOMAIN side THEN side[key] ELSE "absent"

\* A plan has the whole schema of a resource: null and empty say nothing.
MeaningfullySet(v) == v \notin {"absent", "null", "empty"}

HasStatefulEvidence(side) == \E key \in StatefulEvidence : MeaningfullySet(Value(side, key))
HasDisabledSafety(side)   == \E key \in DisabledSafety : Value(side, key) = "true"

Guards  == {"deletion_protection", "enable_deletion_protection", "versioning", "point_in_time_recovery"}
Windows == {"backup_retention_period", "deletion_window_in_days"}

\* The closed list of settings whose change takes a way back.
SafetyTransitions ==
    {[key |-> k, from |-> "true", to |-> "false"] : k \in Guards} \cup
    {[key |-> k, from |-> "false", to |-> "true"] : k \in DisabledSafety} \cup
    {[key |-> k, from |-> "positive", to |-> "zero"] : k \in Windows}

Fires(t, c) == Value(c.before, t.key) = t.from /\ Value(c.after, t.key) = t.to

-----------------------------------------------------------------------------
(* The rules. *)

V(rule, rev) == [rule |-> rule, rev |-> rev]

Does(c, action) == \E k \in DOMAIN c.actions : c.actions[k] = action

\* Mutant: a replacement is not a destruction.
DestroysAlone(c) == c.actions = <<"delete">>

Destroys(c) == Does(c, "delete")
Replaces(c) == Destroys(c) /\ Does(c, "create")

\* Mutant: the catalog answers before the evidence does.
ClassOfCatalogFirst(c) ==
    IF catalog[c.type] # "none" THEN catalog[c.type]
    ELSE IF HasStatefulEvidence(c.before) THEN "STATEFUL" ELSE "none"

\* Evidence in the plan wins, then the resolved catalog.
ClassOf(c) == IF HasStatefulEvidence(c.before) THEN "STATEFUL" ELSE catalog[c.type]

ClassifyDestroy(c) ==
    CASE HasDisabledSafety(c.before) \/ ClassOf(c) = "STATEFUL" ->
           V(IF Replaces(c) THEN "TF002" ELSE "TF001", "IRREVERSIBLE")
      [] ~HasDisabledSafety(c.before) /\ ClassOf(c) = "STATELESS" ->
           V(IF Replaces(c) THEN "TF006" ELSE "TF005", "COSTLY")
      [] OTHER -> V("TF010", "UNKNOWN")

ClassifyUpdate(c) ==
    IF \E t \in SafetyTransitions : Fires(t, c) THEN V("TF004", "IRREVERSIBLE") ELSE V("TF007", "REVERSIBLE")

\* One verdict, or none for what is read or left as it is.
Classify(c) ==
    CASE c.mode = "data" -> {}
      [] c.mode # "data" /\ Destroys(c) -> {ClassifyDestroy(c)}
      [] c.mode # "data" /\ c.actions = <<"update">> -> {ClassifyUpdate(c)}
      [] c.mode # "data" /\ c.actions = <<"create">> -> {V("TF008", "REVERSIBLE")}
      [] OTHER -> {}

Finding(v, f, c) == [rule |-> v.rule, rev |-> v.rev, file |-> f, about |-> c]

\* analyzeFile: a plan of another format, or no plan, is one UNKNOWN.
AnalyzeFile(f, p) ==
    IF ~p.ok THEN {Finding(V("TF009", "UNKNOWN"), f, {})}
    ELSE UNION {{Finding(v, f, {c}) : v \in Classify(c)} : c \in p.changes}

-----------------------------------------------------------------------------
(* One run: Load, then New, then Analyze. *)

\* The list of a document that has one key for it, or none.
Listed(d) == IF d.lists = << >> THEN << >> ELSE d.lists[1]

\* Mutant: what is checked in upper case is kept as it is written.
ResolveAsWritten(entry) == entry

\* A class may be written in any case, and is kept in upper case.
Resolve(entry) == [type |-> entry.type, class |-> Upper[entry.class]]

Resolved(d) == [k \in DOMAIN Listed(d) |-> Resolve(Listed(d)[k])]

\* Mutant: the document is not decoded strictly, and one key of two is taken.
LegibleLoosely(d) ==
    \/ d = NoFile
    \/ /\ d.version
       /\ \A k \in DOMAIN Listed(d) : Listed(d)[k].type # "" /\ Upper[Listed(d)[k].class] \in Classes

\* Decoding is strict: a policy file has a version and no key twice, and every
\* entry names a type and a class.  No file is no policy.
Legible(d) ==
    \/ d = NoFile
    \/ /\ d.version /\ Len(d.lists) <= 1
       /\ \A k \in DOMAIN Listed(d) : Listed(d)[k].type # "" /\ Upper[Listed(d)[k].class] \in Classes

Load ==
    /\ phase = "loading" /\ Legible(file)
    /\ policy' = Resolved(file)
    /\ phase' = "configuring"
    /\ UNCHANGED <<file, line, catalog, removed, plan, at, findings, added>>

\* "A run that could not resolve its own configuration does not know what it
\* was meant to enforce": it is over before anything is read.
RefuseFile ==
    /\ phase = "loading" /\ ~Legible(file)
    /\ phase' = "refused"
    /\ UNCHANGED <<file, policy, line, catalog, removed, plan, at, findings, added>>

Severity(class) == IF class = "STATEFUL" THEN 1 ELSE 0

\* An override names a type and a class, and does not weaken what is known by
\* then, be it from the catalog or from an override before it.
Permitted(o) ==
    /\ o.type \in Types /\ o.class \in Classes
    /\ catalog[o.type] # "none" => Severity(o.class) >= Severity(catalog[o.type])

Configuring == phase = "configuring" /\ line <= Len(policy)

ApplyOverride ==
    /\ Configuring /\ Permitted(policy[line])
    /\ catalog' = [catalog EXCEPT ![policy[line].type] = policy[line].class]
    /\ line' = line + 1
    /\ UNCHANGED <<file, policy, removed, plan, at, findings, added, phase>>

\* A policy that weakens stops the run.
RefuseOverride ==
    /\ Configuring /\ ~Permitted(policy[line])
    /\ phase' = "refused"
    /\ UNCHANGED <<file, policy, line, catalog, removed, plan, at, findings, added>>

Ready ==
    /\ phase = "configuring" /\ line > Len(policy)
    /\ phase' = "reading"
    /\ UNCHANGED <<file, policy, line, catalog, removed, plan, at, findings, added>>

Supports(f) == f \in Claimed

Reading == phase = "reading" /\ at <= NumFiles

PassOver ==
    /\ Reading /\ (~Supports(at) \/ at \in removed)
    /\ at' = at + 1
    /\ UNCHANGED <<file, policy, line, catalog, removed, plan, findings, added, phase>>

Contained(f) == IF plan[f] = {} THEN Plans[f] ELSE plan[f]

ReadPlan ==
    /\ Reading /\ Supports(at) /\ at \notin removed
    /\ \E p \in Contained(at) :
          /\ plan' = [plan EXCEPT ![at] = {p}]
          /\ findings' = findings \cup AnalyzeFile(at, p)
    /\ at' = at + 1
    /\ UNCHANGED <<file, policy, line, catalog, removed, added, phase>>

Return ==
    /\ phase = "reading" /\ at > NumFiles
    /\ phase' = "returned"
    /\ UNCHANGED <<file, policy, line, catalog, removed, plan, at, findings, added>>

\* The context is looked at once.
Cancelled ==
    /\ phase = "reading" /\ at = 1
    /\ phase' = "failed"
    /\ UNCHANGED <<file, policy, line, catalog, removed, plan, at, findings, added>>

-----------------------------------------------------------------------------
(* The growth loop. *)

UnclassifiedTypes == {c.type : c \in UNION {f.about : f \in {g \in findings : g.rule = "TF010"}}}

\* What is printed to be added to a policy file: one terraform_types: key and
\* behind it an entry for each type, all of the class that cannot do harm.
PolicySnippet(types) ==
    IF types = {} THEN << >> ELSE <<SetToSeq({[type |-> t, class |-> "STATEFUL"] : t \in types})>>

\* The user has put the block into the file, which is now d, and runs again.
RunAgain(d) ==
    /\ phase = "returned" /\ ~added /\ UnclassifiedTypes # {}
    /\ file' = d
    /\ policy' = << >> /\ line' = 1
    /\ catalog' = Embedded
    /\ findings' = {} /\ at' = 1
    /\ added' = TRUE
    /\ phase' = "loading"
    /\ UNCHANGED <<removed, plan>>

\* The block is pasted behind whatever is there, into a new file if nothing is.
Paste == RunAgain([file EXCEPT !.lists = @ \o PolicySnippet(UnclassifiedTypes)])

\* Its entries are written behind those that are there, under the one key, in
\* a file that has a version.
Merge == RunAgain([version |-> TRUE,
                   lists |-> <<Listed(file) \o Listed([file EXCEPT !.lists = PolicySnippet(UnclassifiedTypes)])>>])

Init ==
    /\ file \in PolicyFiles
    /\ policy = << >> /\ line = 1
    /\ catalog = Embedded
    /\ removed \in SUBSET Files
    /\ plan = [f \in Files |-> {}]
    /\ at = 1 /\ findings = {} /\ added = FALSE
    /\ phase = "loading"

Next ==
    \/ Load \/ RefuseFile \/ ApplyOverride \/ RefuseOverride \/ Ready
    \/ PassOver \/ ReadPlan \/ Return \/ Cancelled
    \/ Paste \/ Merge

Spec == Init /\ [][Next]_vars

-----------------------------------------------------------------------------
(* What must hold. *)

Revs == {"REVERSIBLE", "COSTLY", "UNKNOWN", "IRREVERSIBLE"}

\* A catalog holds defined classes only, whatever a policy file says, and a
\* policy that was loaded has no other words for them.
TypeOK ==
    /\ file \in Documents /\ policy \in Seq(Loaded)
    /\ catalog \in [Types -> Classes \cup {"none"}]
    /\ removed \subseteq Files
    /\ line \in 1 .. Len(policy) + 1 /\ at \in 1 .. NumFiles + 1
    /\ plan = [f \in Files |-> plan[f]] /\ \A f \in Files : plan[f] \subseteq Plans[f]
    /\ \A f \in findings : f.file \in Files /\ f.rev \in Revs
    /\ added \in BOOLEAN
    /\ phase \in {"loading", "configuring", "refused", "reading", "returned", "failed"}

Returned == phase = "returned"

\* Somebody said that type t is of a class: the catalog or a line of the policy.
Said(t, class) == Embedded[t] = class \/ \E k \in DOMAIN policy : policy[k] = [type |-> t, class |-> class]

\* Nothing talks a verdict down. A destruction is called recreatable only if
\* nobody, neither the catalog nor any line of the policy, calls its type
\* stateful, somebody calls it stateless, and the resource shows no storage,
\* no backup, no protection and no safety that was switched off; an update is
\* called reversible only if no listed way back was there before it and is
\* off after it.
NeverTalkedDown ==
    \A f \in findings : \A c \in f.about :
        /\ f.rev \in {"COSTLY", "REVERSIBLE"} /\ Destroys(c) =>
              /\ f.rev = "COSTLY"
              /\ Said(c.type, "STATELESS") /\ ~Said(c.type, "STATEFUL")
              /\ \A k \in StatefulEvidence : Value(c.before, k) \in {"absent", "null", "empty"}
              /\ \A k \in DisabledSafety : Value(c.before, k) # "true"
        /\ f.rev = "REVERSIBLE" /\ c.actions = <<"update">> =>
              /\ \A k \in Guards : Value(c.before, k) = "true" => Value(c.after, k) # "false"
              /\ \A k \in DisabledSafety : Value(c.before, k) = "false" => Value(c.after, k) # "true"
              /\ \A k \in Windows : Value(c.before, k) = "positive" => Value(c.after, k) # "zero"

\* What makes, changes or destroys a managed resource.
Managed(c) == c.mode = "managed" /\ \E a \in {"create", "update", "delete"} : Does(c, a)

\* Nothing in a plan goes unanswered: whatever makes, changes or destroys a
\* managed resource has exactly one verdict, a file that was named as a plan
\* and is none is UNKNOWN, and of other files, and of plans that are removed,
\* nothing is said.
NothingUnanswered ==
    Returned => \A f \in Files :
        IF f \notin Claimed \/ f \in removed
        THEN \A g \in findings : g.file # f
        ELSE LET here == {g \in findings : g.file = f} IN
             /\ plan[f] # {}
             /\ \A p \in plan[f] :
                IF ~p.ok THEN \E g \in here : g.rev = "UNKNOWN"
                ELSE \A c \in p.changes :
                        Managed(c) =>
                            /\ \E g \in here : c \in g.about
                            /\ \A g, h \in here : c \in g.about /\ c \in h.about => g = h

\* Once the printed block is in a policy file that has a version and no other
\* terraform_types: key, be it pasted or merged with the list that was there,
\* the policy is not refused for it and the run over the same plans knows every
\* type.  Pasted into any other file, the block its own header included is
\* never half obeyed: the run is refused and says nothing of the plans.
SnippetSettles ==
    added =>
        IF file.version /\ Len(file.lists) = 1
        THEN phase # "refused" /\ UnclassifiedTypes = {}
        ELSE phase \in {"loading", "refused"} /\ findings = {}

\* What has to be answered of the plans that were read so far: each change of a
\* managed resource, and each file that is no plan.
Owed ==
    UNION {UNION {IF p.ok THEN {[at |-> <<f, {c}>>, legible |-> TRUE] : c \in {d \in p.changes : Managed(d)}}
                  ELSE {[at |-> <<f, {}>>, legible |-> FALSE]} :
                  p \in plan[f]} :
           f \in {g \in Claimed \ removed : g < at}}

Told == {[file |-> f.file, at |-> <<f.file, f.about>>, rev |-> f.rev] : f \in {g \in findings : Returned}}

Contract ==
    INSTANCE Analyzer WITH
        claimed <- Claimed \ removed,
        owed    <- Owed,
        told    <- Told,
        state   <- CASE phase \in {"loading", "configuring", "reading"} -> "working"
                     [] phase \in {"refused", "failed"}      -> "failed"
                     [] OTHER                                -> "returned"

\* "It must never return a nil error alongside an incomplete result"
\* (analyzer.go): what is returned has a finding for every change of a managed
\* resource, an UNKNOWN for every file that was named as a plan and is none,
\* and nothing of other files; a policy that is refused or a context that
\* ended is an error and nothing else; the run behind an added block owes
\* everything anew.
ImplementsAnalyzer == Contract!Spec
=============================================================================
