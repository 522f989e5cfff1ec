----------------------------- MODULE Kubernetes -----------------------------
(***************************************************************************)
(* The Kubernetes analyzer: every manifest of a changeset is parsed on     *)
(* both sides, its objects are indexed by identity, whichever file they    *)
(* stand in, and each object that changed is classified with the whole of  *)
(* both indexes at hand.  Manifests that did not change are indexed too:   *)
(* they hold the storage class of a deleted claim and the workload that    *)
(* mounts a deleted Secret.                                                *)
(*                                                                         *)
(* A manifest side is a sequence of documents. A document is [api, kind,   *)
(* ns, name, body]; the body has the fields the rules read, by kind, and   *)
(* `rest` for the others. Files are numbered in path order.                *)
(***************************************************************************)
EXTENDS Integers, FiniteSets, SequencesExt

CONSTANTS
    NumFiles,    \* files of the changeset
    Changesets,  \* what they may be: functions from Files to changed files
    Digests      \* the image references that carry a digest

ASSUME ManifestsAssumption == NumFiles \in Nat

Files == 1 .. NumFiles

Statuses == {"ADDED", "MODIFIED", "REMOVED", "RENAMED"}

\* A provider gives a removed file no new side.
ASSUME ChangesetsAssumption ==
    \A c \in Changesets : DOMAIN c = Files /\ \A f \in Files :
        /\ c[f].status \in Statuses /\ c[f].yaml \in BOOLEAN
        /\ \A side \in {"old", "new"} : Len(c[f][side]) \in Nat /\ DOMAIN c[f][side] = 1 .. Len(c[f][side])
        /\ c[f].status = "REMOVED" => c[f].new = << >>

VARIABLES
    changeset,  \* changeset[f]: status, old and new side, whether it is YAML
    handed,     \* the files in the order the caller passed them
    order,      \* the files in the order they are read
    at,         \* which of them is being read
    old,        \* the index of each side: object and file by identity
    new,
    changed,    \* the identities the changeset touches
    findings,
    phase

vars == <<changeset, handed, order, at, old, new, changed, findings, phase>>

-----------------------------------------------------------------------------
(* Parsing. *)

\* A document that renders to nothing, one that is no YAML; one without a
\* kind has the kind "".
Blank     == "(blank)"
Malformed == "(malformed)"

\* Mutant: a document without a kind is an object like any other.
FailsOnMalformed(text) == \E i \in DOMAIN text : text[i].kind = Malformed

\* One bad document is the end of the whole side.
Fails(text) == \E i \in DOMAIN text : text[i].kind \in {"", Malformed}

\* The places of the objects among the documents.
Parsed(text) == IF Fails(text) THEN {} ELSE {i \in DOMAIN text : text[i].kind # Blank}

Key(d) == [api |-> d.api, kind |-> d.kind, ns |-> d.ns, name |-> d.name]

Keys(text) == {Key(text[i]) : i \in Parsed(text)}

LastOf(text, k) == text[Max({i \in Parsed(text) : Key(text[i]) = k})]

\* The objects of a side take the place of those indexed before them.
Indexed(index, f, text) ==
    [k \in DOMAIN index \cup Keys(text) |->
        IF k \in Keys(text) THEN [doc |-> LastOf(text, k), file |-> f] ELSE index[k]]

-----------------------------------------------------------------------------
(* One object on both sides. *)

NoKey  == [api |-> "", kind |-> "", ns |-> "", name |-> ""]
Absent == [doc |-> [api |-> "", kind |-> "", ns |-> "", name |-> "", body |-> [rest |-> ""]], file |-> 0]

In(index, k) == IF k \in DOMAIN index THEN index[k] ELSE Absent

Change(k) == [key |-> k, was |-> In(old, k), is |-> In(new, k)]

Added(c)   == c.was = Absent /\ c.is # Absent
Removed(c) == c.was # Absent /\ c.is = Absent
Kept(c)    == c.was # Absent /\ c.is # Absent

Before(c) == c.was.doc.body
After(c)  == c.is.doc.body

Differs(c, field) == Before(c)[field] # After(c)[field]

Workloads  == {"Deployment", "StatefulSet", "DaemonSet"}
Claim      == "PersistentVolumeClaim"
Recognized == Workloads \cup {Claim, "Service", "StorageClass", "ConfigMap", "Secret",
                              "Namespace", "CustomResourceDefinition"}

Find(rule, rev, c, on) ==
    [rule |-> rule, rev |-> rev, key |-> c.key, on |-> on,
     file |-> IF c.is # Absent THEN c.is.file ELSE c.was.file]

\* The finding, if p.
If(p, finding) == IF p THEN {finding} ELSE {}

-----------------------------------------------------------------------------
(* Volumes. *)

\* Suffixes of a quantity, in thousandths. The larger ones have the same ratio.
Multiplier ==
    [s \in {"m", "(none)", "k", "Ki", "M", "Mi"} |->
        CASE s = "m" -> 1          [] s = "(none)" -> 1000
          [] s = "k" -> 1000000    [] s = "Ki"     -> 1024000
          [] s = "M" -> 1000000000 [] OTHER        -> 1048576000]

\* A field that is not there. Any other suffix without a multiplier is refused.
NoQuantity == [number |-> 0, suffix |-> "(absent)"]

ASSUME QuantitiesAssumption ==
    \A c \in Changesets : \A f \in Files : \A side \in {"old", "new"} : \A i \in DOMAIN c[f][side] :
        c[f][side][i].kind = Claim => c[f][side][i].body.storage.number \in Int

Unreadable(q) == q # NoQuantity /\ q.suffix \notin DOMAIN Multiplier

\* Mutant: sizes are compared by their digits.
Digit(q) == q.number

Size(q) == q.number * Multiplier[q.suffix]

\* What looking a storage class up may answer: the first class of that name
\* that the walk over the map meets. A class that states no policy, and a
\* claim that names no class, are unresolved.
Reclaims(name) ==
    LET classes == {k \in DOMAIN old : k.kind = "StorageClass" /\ k.name = name}
    IN  IF name = "" \/ classes = {} THEN {"unresolved"}
        ELSE {IF old[k].doc.body.reclaim = "" THEN "unresolved" ELSE old[k].doc.body.reclaim : k \in classes}

ClaimRemoved(c, policy) ==
    If(Removed(c) /\ c.key.kind = Claim /\ policy # "Retain", Find(3, "IRREVERSIBLE", c, << >>))

ClaimShrunk(c) ==
    LET was == Before(c).storage
        is  == After(c).storage
    IN  IF Unreadable(was) \/ Unreadable(is) THEN {Find(14, "UNKNOWN", c, <<"storage">>)}
        ELSE If(NoQuantity \notin {was, is} /\ Size(is) < Size(was), Find(4, "IRREVERSIBLE", c, << >>))

ClaimRules(c, policy) ==
    ClaimRemoved(c, policy)
        \cup (IF Kept(c) /\ c.key.kind = Claim
              THEN ClaimShrunk(c) \cup If(Differs(c, "class"), Find(5, "IRREVERSIBLE", c, << >>))
              ELSE {})

-----------------------------------------------------------------------------
(* Workloads. *)

\* Only a digest pins an image: a tag may point elsewhere tomorrow.
IsPinned(image) == image \in Digests

\* Containers by name, init containers included.
ContainerField(body, field) ==
    [n \in DOMAIN body.containers |-> body.containers[n][field]]

ImmutableRules(c) ==
    If(c.key.kind = "StatefulSet" /\ Differs(c, "claims"), Find(1, "IRREVERSIBLE", c, << >>))
        \cup If(Differs(c, "selector"), Find(2, "IRREVERSIBLE", c, << >>))

ImageNotPinned(c) ==
    {Find(8, "COSTLY", c, <<n>>) :
        n \in {n \in DOMAIN After(c).containers : ~IsPinned(After(c).containers[n].image)}}

\* Only the new image is asked for a digest.
ImageChangedPinned(c) ==
    LET was == Before(c).containers
        is  == After(c).containers
    IN  {Find(15, "REVERSIBLE", c, <<n>>) :
            n \in {n \in DOMAIN was \cap DOMAIN is : was[n].image # is[n].image /\ IsPinned(is[n].image)}}

RecreateStrategy(c) ==
    If(c.key.kind = "Deployment" /\ After(c).strategy = "Recreate" /\ Before(c).strategy # "Recreate",
       Find(10, "COSTLY", c, << >>))

Probes(body, n) == IF n \in DOMAIN body.containers THEN body.containers[n].probes ELSE {}

ProbeRemoved(c) ==
    UNION {{Find(11, "COSTLY", c, <<n, p>>) : p \in Probes(Before(c), n) \ Probes(After(c), n)} :
              n \in DOMAIN Before(c).containers}

\* One finding for each category that changed.
TuningChanged(c) ==
    {Find(12, "REVERSIBLE", c, <<field>>) : field \in
        {f \in {"replicas", "labels"} : Differs(c, f)} \cup
        {f \in {"resources", "env"} : ContainerField(Before(c), f) # ContainerField(After(c), f)}}

WorkloadRules(c) ==
    IF c.key.kind \notin Workloads \/ c.is = Absent THEN {}
    ELSE ImageNotPinned(c)
         \cup If(Added(c), Find(13, "REVERSIBLE", c, << >>))
         \cup (IF Kept(c) THEN ImmutableRules(c) \cup RecreateStrategy(c) \cup ProbeRemoved(c)
                               \cup TuningChanged(c) \cup ImageChangedPinned(c)
               ELSE {})

-----------------------------------------------------------------------------
(* Everything else. *)

ContainersRemoved(c) ==
    If(Removed(c) /\ c.key.kind \in {"Namespace", "CustomResourceDefinition"}, Find(6, "IRREVERSIBLE", c, << >>))

ServiceChanged(c) ==
    If(Kept(c) /\ c.key.kind = "Service" /\ (Differs(c, "type") \/ Differs(c, "clusterIP")),
       Find(7, "COSTLY", c, << >>))

\* References are <<kind, name>>; env also has literals.
References(body, ref) ==
    \/ ref \in body.volumes
    \/ \E n \in DOMAIN body.containers : ref \in body.containers[n].env \cup body.containers[n].envFrom

\* Mutant: only workloads the changeset touches are asked.
TouchedReferents(k) ==
    {w \in DOMAIN new \cap changed : w.kind \in Workloads /\ w.ns = k.ns
                                        /\ References(new[w].doc.body, <<k.kind, k.name>>)}

\* Workloads that name a ConfigMap or a Secret after the change.
Referents(k) ==
    {w \in DOMAIN new : w.kind \in Workloads /\ w.ns = k.ns
                           /\ References(new[w].doc.body, <<k.kind, k.name>>)}

ConfigRemoved(c) ==
    If(Removed(c) /\ c.key.kind \in {"ConfigMap", "Secret"} /\ Referents(c.key) # {}, Find(9, "COSTLY", c, << >>))

\* classify: the rules in one, and UNKNOWN where none of them speaks.
Classify(c, policy) ==
    LET spoken == ClaimRules(c, policy) \cup WorkloadRules(c) \cup ContainersRemoved(c)
                      \cup ServiceChanged(c) \cup ConfigRemoved(c)
    IN  IF c.key.kind \notin Recognized \/ spoken = {} THEN {Find(14, "UNKNOWN", c, << >>)} ELSE spoken

-----------------------------------------------------------------------------
(* One call of Analyze. *)

NothingIndexed == [k \in {} |-> Absent]

Init ==
    /\ changeset \in Changesets
    /\ handed \in SetToSeqs(Files)
    /\ order = << >> /\ at = 1
    /\ old = NothingIndexed /\ new = NothingIndexed
    /\ changed = {} /\ findings = {}
    /\ phase = "handed"

\* Mutant: the files are read as the caller passed them.
TakeAsHanded ==
    /\ phase = "handed"
    /\ order' = handed
    /\ phase' = "reading"
    /\ UNCHANGED <<changeset, handed, at, old, new, changed, findings>>

InPathOrder(files) == \A i, j \in DOMAIN files : i < j => files[i] < files[j]

\* Two files may define one object: the last in path order prevails.
Sort ==
    /\ phase = "handed"
    /\ order' = CHOOSE files \in SetToSeqs({handed[i] : i \in DOMAIN handed}) : InPathOrder(files)
    /\ phase' = "reading"
    /\ UNCHANGED <<changeset, handed, at, old, new, changed, findings>>

File == changeset[order[at]]

Reading(yaml) == phase = "reading" /\ at <= Len(order) /\ File.yaml = yaml

PassOver ==
    /\ Reading(FALSE)
    /\ at' = at + 1
    /\ UNCHANGED <<changeset, handed, order, old, new, changed, findings, phase>>

\* Mutant: a modified file is never context.
ContextOfNothing(file) == FALSE

\* Content that is the same on both sides is there to be looked up.
IsContext(file) == file.status = "MODIFIED" /\ file.old = file.new

Unread(f) == [rule |-> 14, rev |-> "UNKNOWN", key |-> NoKey, on |-> << >>, file |-> f]

\* The new side does not parse: one UNKNOWN, and the next file. An old side
\* that does not parse is passed over, here as below.
Unparsable ==
    /\ Reading(TRUE) /\ Fails(File.new)
    /\ old' = Indexed(old, order[at], File.old)
    /\ findings' = findings \cup {Unread(order[at])}
    /\ at' = at + 1
    /\ UNCHANGED <<changeset, handed, order, new, changed, phase>>

ReadKept ==
    /\ Reading(TRUE) /\ ~Fails(File.new) /\ File.status # "REMOVED"
    /\ old' = Indexed(old, order[at], File.old)
    /\ new' = Indexed(new, order[at], File.new)
    /\ changed' = IF IsContext(File) THEN changed ELSE changed \cup Keys(File.new)
    /\ at' = at + 1
    /\ UNCHANGED <<changeset, handed, order, findings, phase>>

\* Mutant: the objects of a removed file are not indexed.
ReadRemovedLater ==
    /\ Reading(TRUE) /\ ~Fails(File.new) /\ File.status = "REMOVED"
    /\ changed' = changed \cup Keys(File.old)
    /\ findings' = findings \cup If(Fails(File.old), Unread(order[at]))
    /\ at' = at + 1
    /\ UNCHANGED <<changeset, handed, order, old, new, phase>>

\* What a removed file held is touched. If that cannot be read, it is UNKNOWN
\* what the deletion destroys.
ReadRemoved ==
    /\ Reading(TRUE) /\ ~Fails(File.new) /\ File.status = "REMOVED"
    /\ old' = Indexed(old, order[at], File.old)
    /\ changed' = changed \cup Keys(File.old)
    /\ findings' = findings \cup If(Fails(File.old), Unread(order[at]))
    /\ at' = at + 1
    /\ UNCHANGED <<changeset, handed, order, new, phase>>

\* The objects to classify: those of the files that changed, and those that
\* are in no file any more.
Touched == changed \cup (DOMAIN old \ DOMAIN new)

PolicyFor(k) ==
    IF k.kind = Claim /\ k \in DOMAIN old THEN Reclaims(old[k].doc.body.class) ELSE {"unresolved"}

\* All files are read: every touched object is classified. The order of the
\* objects, and of the findings, says nothing.
Return ==
    /\ phase = "reading" /\ at > Len(order)
    /\ \E policy \in [Touched -> UNION {PolicyFor(k) : k \in Touched}] :
          /\ \A k \in Touched : policy[k] \in PolicyFor(k)
          /\ findings' = findings \cup UNION {Classify(Change(k), policy[k]) :
                                                k \in Touched \cap (DOMAIN old \cup DOMAIN new)}
    /\ changed' = Touched
    /\ phase' = "returned"
    /\ UNCHANGED <<changeset, handed, order, at, old, new>>

\* Mutant: a context that ends while files are read ends the reading.
CancelledQuietly ==
    /\ phase = "reading" /\ at <= Len(order)
    /\ phase' = "returned"
    /\ UNCHANGED <<changeset, handed, order, at, old, new, changed, findings>>

\* The context is looked at before every file: an error, and no findings.
Cancelled ==
    /\ phase = "handed" \/ (phase = "reading" /\ at <= Len(order))
    /\ order' = << >> /\ at' = 1
    /\ old' = NothingIndexed /\ new' = NothingIndexed
    /\ changed' = {} /\ findings' = {}
    /\ phase' = "failed"
    /\ UNCHANGED <<changeset, handed>>

Next == Sort \/ PassOver \/ Unparsable \/ ReadKept \/ ReadRemoved \/ Return \/ Cancelled

Spec == Init /\ [][Next]_vars

-----------------------------------------------------------------------------
(* What must hold. *)

Returned == phase = "returned"

\* The files that hold an object on a side, and the side as a whole: what the
\* last of them says.
Holders(side, k) == {f \in Files : changeset[f].yaml /\ k \in Keys(changeset[f][side])}
Held(side)       == UNION {Keys(changeset[f][side]) : f \in {g \in Files : changeset[g].yaml}}

Stands(side, k) ==
    IF Holders(side, k) = {} THEN Absent
    ELSE LET f == Max(Holders(side, k)) IN [doc |-> LastOf(changeset[f][side], k), file |-> f]

TypeOK ==
    /\ DOMAIN changeset = Files /\ \A f \in Files : changeset[f].status \in Statuses
    /\ handed \in SetToSeqs(Files)
    /\ order \in {<< >>} \cup SetToSeqs(Files)
    /\ at \in 1 .. NumFiles + 1
    /\ \A index \in {old, new} : \A k \in DOMAIN index :
          Key(index[k].doc) = k /\ index[k].file \in Files /\ k.kind \notin {"", Blank, Malformed}
    /\ changed \subseteq Held("old") \cup Held("new")
    /\ \A f \in findings : f.rule \in 1 .. 15 /\ f.file \in Files
                              /\ f.rev \in {"REVERSIBLE", "COSTLY", "UNKNOWN", "IRREVERSIBLE"}
    /\ phase \in {"handed", "reading", "returned", "failed"}

\* Each object is in one file at most on each side, if not in the same.
Lone(k) == \A side \in {"old", "new"} : Cardinality(Holders(side, k)) <= 1

Said(k) == {f \in findings : f.key = k}

\* The comment at kubernetes.go:57: two files that define the same object are
\* resolved by their paths, never by the order in which the caller had them.
LastFileWins ==
    Returned =>
        /\ \A k \in Held("old") \cup DOMAIN old : In(old, k) = Stands("old", k)
        /\ \A k \in Held("new") \cup DOMAIN new : In(new, k) = Stands("new", k)

\* A manifest to deploy, or to delete, that does not parse.
Illegible(f) ==
    /\ changeset[f].yaml
    /\ Fails(changeset[f].new) \/ (changeset[f].status = "REMOVED" /\ Fails(changeset[f].old))

\* An object that is not on one side what it is on the other: it was edited,
\* moved between files and edited, dropped from a file or deleted with it.
Altered(k) == Lone(k) /\ Stands("old", k).doc # Stands("new", k).doc

\* Nothing goes unanswered: there is an UNKNOWN for each illegible manifest and
\* a finding for each altered object.
NothingUnanswered ==
    Returned =>
        /\ \A f \in Files : Illegible(f) => Unread(f) \in findings
        /\ \A k \in Held("old") \cup Held("new") : Altered(k) => Said(k) # {}

\* What has to be answered: manifests as they turn out to be illegible, and
\* objects when all are read. An object is in no file: it is matched across
\* them.
Owed ==
    {[at |-> [file |-> order[i], key |-> NoKey], legible |-> FALSE] :
        i \in {j \in 1 .. at - 1 : Illegible(order[j])}}
    \cup
    IF Returned
    THEN {[at |-> [file |-> 0, key |-> k], legible |-> TRUE] :
             k \in {h \in Held("old") \cup Held("new") : Altered(h)}}
    ELSE {}

Told ==
    {[file |-> f.file, at |-> [file |-> IF f.key = NoKey THEN f.file ELSE 0, key |-> f.key], rev |-> f.rev] :
        f \in {g \in findings : Returned}}

Contract ==
    INSTANCE Analyzer WITH
        claimed <- {f \in Files : changeset[f].yaml},
        owed    <- Owed,
        told    <- Told,
        state   <- IF phase \in {"handed", "reading"} THEN "working" ELSE phase

\* "It must never return a nil error alongside an incomplete result"
\* (analyzer.go): what is returned has an UNKNOWN for every manifest that
\* could not be read and a finding for every altered object, about manifests
\* alone; a call that is cut short returns an error and nothing else.
ImplementsAnalyzer == Contract!Spec

-----------------------------------------------------------------------------
(* What a cluster loses and no manifest brings back. *)

\* What the storage classes of that name, before the change, do with a volume;
\* a claim may name none.
PoliciesOf(name) ==
    LET classes == {k \in Held("old") : k.kind = "StorageClass" /\ k.name = name}
    IN  IF name = "" THEN {} ELSE {Stands("old", k).doc.body.reclaim : k \in classes}

Shrinks(was, is) ==
    /\ NoQuantity \notin {was, is} /\ ~Unreadable(was) /\ ~Unreadable(is)
    /\ is.number * Multiplier[is.suffix] < was.number * Multiplier[was.suffix]

\* Two classes of one name disagree: which one the claim had is anyone's guess.
Ambiguous(k) ==
    k.kind = Claim /\ "Retain" \in PoliciesOf(Stands("old", k).doc.body.class)
                   /\ PoliciesOf(Stands("old", k).doc.body.class) # {"Retain"}

Destroyed(k) ==
    LET was == Stands("old", k).doc.body
        is  == Stands("new", k).doc.body
    IN  IF k \notin Held("new")
        THEN \/ k.kind = Claim /\ "Retain" \notin PoliciesOf(was.class)
             \/ k.kind \in {"Namespace", "CustomResourceDefinition"}
        ELSE \/ k.kind = Claim /\ (was.class # is.class \/ Shrinks(was.storage, is.storage))
             \/ k.kind \in Workloads /\ was.selector # is.selector
             \/ k.kind = "StatefulSet" /\ was.claims # is.claims

\* What is destroyed is IRREVERSIBLE, and what is called IRREVERSIBLE is
\* destroyed: a volume whose class does not keep it, a claim that shrinks in
\* bytes, whatever the unit, or moves to another class, the owner of pods, all
\* that is in a namespace; in whichever file the object stood and stands, and
\* whatever else about it changed. (Which of two namesake classes the walk
\* over the map meets is left to chance: `Ambiguous`.)
IrreversibleMeansDestroyed ==
    Returned => \A k \in Held("old") : Lone(k) =>
        /\ Destroyed(k) => \E f \in Said(k) : f.rev = "IRREVERSIBLE"
        /\ (\E f \in Said(k) : f.rev = "IRREVERSIBLE") => Destroyed(k) \/ Ambiguous(k)

\* "The workload here is untouched by the changeset, and without it the
\* deletion looks harmless" (rules.go:405): a ConfigMap or a Secret that goes
\* is reported as dangling exactly if a workload that stays, in any manifest
\* that was read, touched or not, still names it.
DanglingIsReported ==
    Returned => \A k \in Held("old") \ Held("new") :
        k.kind \in {"ConfigMap", "Secret"} =>
            ((\E f \in Said(k) : f.rule = 9) <=>
             \E w \in Held("new") : w.kind \in Workloads /\ w.ns = k.ns
                                      /\ References(Stands("new", w).doc.body, <<k.kind, k.name>>))

\* Objects are matched across files (kubernetes.go:45): one that moved from a
\* file to another is neither new nor removed, whatever the order of the two.
\* (If what it moved from cannot be parsed it is new: the code has no choice.)
MovedIsNotNew ==
    Returned => \A f \in findings :
        /\ f.rule = 13 => f.key \notin Held("old")
        /\ f.rule \in {3, 6, 9} => f.key \notin Held("new")

Untouched(f) == changeset[f].status = "MODIFIED" /\ changeset[f].old = changeset[f].new

\* "Files whose content is byte-identical on both sides ... generate no
\* findings of their own" (kubernetes.go:46), provided they parse and define
\* what no other file defines.
ContextIsSilent ==
    Returned /\ (\A f \in Files : Untouched(f) => ~Fails(changeset[f].new)) =>
        \A f \in findings : Untouched(f.file) => f.key # NoKey /\ ~Lone(f.key)
=============================================================================
