# A TLA+ model of reversibility-engine

reversibility-engine reads the migrations, manifests and plans of a change and
issues a certificate: a grade for how reversible the change is, a gate verdict
an agent may merge on, and the reasons. It is run as a command (`revctl`), as a
GitHub Action around that command, and as a GitHub App (`revsrv`). What it
promises is mostly negative: no PASS without having read everything, no grade
from a run that broke, no policy that lifts a verdict, no silence. Those
promises depend on orders, partial failures and interleavings, and they are
what these modules state.

Everything is translated from the Go and shell sources under `src/`.
`PROJECT.json` maps each definition to the lines it stands for, lists the
runs, the theorems, the places where code and documentation disagree, and the
hazards each property is aimed at. Line numbers below are of those sources.

## The system

| Part | State it keeps | Operations | Module |
|---|---|---|---|
| Vocabulary and scoring (`internal/domain`, `engine/scorer.go`, `engine/undo.go`) | none | severity orders, `score`, ceilings, merge gate, undo plan | `Verdict` |
| `Engine.Certify` (`internal/engine`) | findings, down statuses, errors, certificate of one call | context check, analyzers in registry order, down validation, enrichment, policy, assembly, recover | `Certify` |
| Coverage (`engine/candidate.go`) | none: what was listed against what was read | `unsupportedContent`, `classifyOutcome`, ignored candidates | `Certify` |
| Policy (`internal/policy`) | overrides, waivers and `terraform_types` of one file | `Load`; `applyOverrides`, `waiverFor`, `Apply` | `Certify`; loading `terraform_types` in `Terraform` |
| Production context (`internal/snapshot`) | one snapshot | `Enrich`; loading; collecting | `Certify` (its effect on findings) |
| GitHub App (`internal/delivery/github`, `cmd/revsrv`) | goroutines, token cache, the pull request's comment | receive, authenticate, fetch, certify, upsert, shut down | `ReviewApp` |
| GitHub Action (`action/*.sh`, `action.yml`) | files of the workspace and of the job's stage, outputs | `certify.sh`, `comment.sh` | `Action` |
| `revctl check` (`internal/delivery/cli`) | the certificate file, the exit code | `runCheck`, `applyGate` | `Action` |
| Providers (`internal/provider`) | revisions, listings | resolve, list, read | `Provider`; a bounded sequence of calls in `ReviewApp` |
| SQL parser (`internal/analyzer/postgres/parser`) | none | `convert`: parse trees to statements | `Parser` |
| Postgres analyzer (`internal/analyzer/postgres`) | tracked schema over ordered files | `Analyze`, `ValidateDownMigrations` | `PostgresRules`, `Postgres` (`Analyze`) beside `Database`, `Changeset` (`ValidateDownMigrations`) |
| Kubernetes analyzer (`internal/analyzer/kubernetes`) | an index of objects for each side of the changeset | `Analyze` | `Kubernetes` |
| Terraform analyzer (`internal/analyzer/terraform`) | the catalog as the policy tightened it | `New`, `Analyze`, `PolicySnippet` | `Terraform` |
| Renderers, certificate schema, digests, `catalog`, `version` | none | formatting, hashing | not modelled |

How they meet:

- `revctl check` and the app's processor both resolve a changeset through a
  provider and call `Engine.Certify`; the certificate is all they get back,
  with an error beside it when the run broke.
- A provider lists a changeset, the caller chooses from the listing, and the
  provider reads what was chosen. The listing is what coverage is measured
  against; the files are what the analyzers see.
- The engine calls the analyzers one after the other and asks each for what it
  claims; enrichment and policy then rewrite the findings; the scorer sees two
  lists, all of them and those no waiver covers.
- `certify.sh` knows `revctl` only by its exit code and by the files it leaves;
  `comment.sh` knows `certify.sh` only by its outputs.
- The app's goroutines share the token cache and the pull request's
  conversation, where also people write.

What is hard in it:

- *Partial failure.* An analyzer fails, the others do not; validation fails
  after the findings were taken; a panic comes after half of the conclusions; a
  script's second run of the tool fails after its first one did not.
- *Two lists that should agree.* What was listed and what was read; all
  findings and the kept ones; the exit code of one run and the document of
  another.
- *Order.* Overrides before waivers, enrichment before both; coverage before
  outcome before grade; exit 2 before fail-on-gate.
- *A world that moves.* A branch is pushed to between the listing and the
  reading, a file is written between two walks over its directory.
- *Depth.* What a statement does may be said by a node below the outermost, what
  a resource is by an attribute of it and not by its type.
- *Concurrency.* Two deliveries for one pull request; a token judged fresh now
  and used minutes later; comments that come and go while they are paged
  through; a shutdown while work runs outside any request.

`PROJECT.json` names each of these at its line, under `hazards`, with the
properties that would catch it going wrong, or why there is none yet.

What makes each part correct:

| Part | Correct when |
|---|---|
| Scoring | worse evidence never scores better; A only for a clean, complete run |
| Certify | PASS is vouched for; failure is an F and an error; every call returns a certificate |
| Coverage | what was listed and not read denies PASS, and no grade is given where nothing was read |
| Policy | the grade never rises; a waiver lifts only the grade CI compares and stops at what nobody understood; a waiver called dead is one |
| Enrichment | only ever makes a verdict worse |
| App | a token outlives the analysis using it; the comment is found when it is there; partial changesets are never graded; every accepted delivery ends |
| Action | exit 0 means read and, if asked, good enough; exit 1 means below the gate; whoever exits so stands on a certificate of its own, whatever lay on disk |
| Parser | a statement that destroys something is lifted to one that is graded so, or to one that is unknown |
| Postgres | a conversion is judged by the past of its column; every statement gets an answer; a plan of runnable steps gives the database back; a down migration that is said to parse or to be symmetric does, in the tree under review |
| Kubernetes | an object is judged by what it was and is in the whole changeset, whichever file holds it; every change gets an answer; what the cluster destroys is IRREVERSIBLE |
| Terraform | nothing that is known of a resource, from the catalog, the policy or the resource, is talked down; every change gets an answer; the block that is printed settles the types it names, or the run is refused |
| Provider | all files show the two sides of one transition; what the change affects was listed, and read if anybody claims it; or the run fails |

## Modules

```
NaturalFacts      least and greatest members of sets of naturals
Verdict           grades, scoring, gate, undo plan
  Promise         what a caller is promised of a certificate (abstract)
    Certify       one call of Engine.Certify             CertifyProofs    MCCertify
  Action          one job that uses the action           ActionProofs     MCAction
Bulletin          what people see of the app (abstract)
  ReviewApp       the webhook server                     ReviewAppProofs  MCReviewApp
Analyzer          what an analyzer owes the engine (abstract): implemented by
                  Postgres, Kubernetes and Terraform
Database          PostgreSQL, as migrations see it
  PostgresRules   the verdict on one statement
    Postgres      one call of the Postgres analyzer      PostgresProofs   MCPostgres
    Parser        parse trees to statements
Provider          one provider.Resolve
  Changeset       what was read, and its down migrations ChangesetProofs  MCChangeset
                  (Provider and Parser composed)
Kubernetes        one call of the Kubernetes analyzer    KubernetesProofs MCKubernetes
Terraform         one run of the Terraform analyzer      TerraformProofs  MCTerraform
```

The MC modules only give constants their values. Inside the modules an operator
under a comment that begins `Mutant:` is a plausible bug: the definition that
follows it, changed in one place. No specification uses them; `PROJECT.json`
says which property each one breaks when it takes the place of the definition
it imitates.

### Verdict

Pure operators. `Severity`, `LockSeverity`, `Rank`, `BandCap` are the orders of
`domain/classification.go`; a value outside an enumeration sorts above every
value in it, as there. `Score` is `score` of `scorer.go`: errors, then blocking
findings, then the outcome, then unread content, then the assigned grade under
its ceilings. A sequence of `Grade.Cap` calls is `Worst` of the set of caps:
capping commutes, so the order of the code carries nothing. `Gate` is the merge
gate, `UndoPlan` the undo plan. `Assessments` is what a caller has to go on: the
combinations of grade, effective grade, gate, outcome, coverage and error that a
certificate can show. `Certify` is shown to conclude only with assessments
(`ImplementsPromise`); `Action` assumes nothing else of an analysis.

### Certify

| Code (`engine.go`) | Action or operator |
|---|---|
| `ctx.Err()` before anything (274) | `Start` |
| `analyze`: the loop over the registry (365-430) | `AnalyzeOK`, `AnalyzeFails`, `ValidateOK`, `ValidateFails` |
| `enrich` (289) and `snapshot/enrich.go` | `Enrich`, `EnrichFinding` |
| `Policy.Apply`: overrides, waivers, dead waivers | `Weakens`, `Tighten`, `Fires`, `Decide` |
| coverage and outcome (305-316), `candidate.go` | `Unsupported`, `Outcome`, `Coverage`, `IgnoredCandidates` |
| the two scorings and the certificate (318-345) | `Certificate`, in `Conclude` |
| `defer recover` (254-272) | `Panic`: any step before the return may be the last |
| the caller's deadline or shutdown | `Cancel`: between any two steps |

The registry, what each analyzer claims and may report, the repository's paths,
policies and snapshots are CONSTANTS; which of them a run is given is chosen in
`Init` and never changes, as in the code, where they are arguments. An analyzer
may report any subset of what it may report of the files it was shown: which one
is the analyzers' own business. Policy, outcome, score and certificate are one
action, since nothing between them consults anything another party can change.

Abstracted: glob matching is the set of paths a waiver reaches; the size
arithmetic behind a band is the band a snapshot yields; prose (titles, causes,
blockers, remedies) is absent; paths are in the repository's namespace
throughout. Findings carry an id because the code has a slice where the model
has a set. `Unset`, a verdict outside the enumeration, is in the type and
covered by every theorem; the run does not enumerate it.

`Promise` is what a caller relies on, without analyzers, files or policies:
evidence is gathered and never taken back, a step may fail, and there is one
answer. The answer is an assessment, is broken when anything failed, has a grade
no better than the evidence alone earns, and a gate that opens on reversible
changes under short locks. `Certify` implements it with its findings as the
evidence, a non-empty list of errors as the trouble, and what the caller can go
on (`Assessment`) as the answer; enrichment, policy, coverage and panics are
then steps that change nothing a caller sees.

### ReviewApp

| Code | Action |
|---|---|
| `ServeHTTP`, `handlePullRequest`: signature, event, decode, dispatch | `Receive(d)`, answered by `Respond(d)` |
| the goroutine takes its deadline (`webhook.go:224`) | `Begin(d)` |
| `installationToken`: cache, margin, request | `Authenticate(d)`, `Minted(d)` |
| `provider.Resolve` | `Fetched(d)`, once per call |
| `Engine.Certify` | `Certify(d)`: any certificate |
| `findOwnComment`, one page at a time | `Page(d)` |
| create or edit | `Posted(d)`, whose answer may be lost |
| any call refused, any call past the deadline | `Fail(d)`, `Expire(d)` |
| `Server.Run`: signal, `Shutdown`, return | `Signal`, `Exit` |
| the process dies, and is started again | `Kill`, `Restart` |
| people | `Says`, `Delete` |

A call is a wait: the goroutine sits at `mint`, `fetch`, `find` or `post` until
GitHub answers, refuses or the deadline passes, and everything else goes on
meanwhile. Of a report that GitHub carries out the answer may get lost: the
goroutine only logs that and is over either way (`webhook.go:228-232`), so
`Posted` is one step. `Exit` waits for requests being handled and for nothing
else, which is what `http.Server.Shutdown` does. A panic in a goroutine
outside the engine takes the process with it, so it is `Kill`. `sure` is
history, kept for `FoundWhenPresent`: the app's comment was there when the walk
began and nothing has been deleted since.

Left out: the static-token strategy, the contents of signatures and JWTs, the
timeout of `Shutdown` itself, the two checks of a payload that end like
`ignored`.

`Bulletin` is what the people of a pull request see: a conversation, and for
each delivery an analysis that is open or over. A publication closes the
analysis it is of, as a comment of its own or in the place of one the app takes
for its own; an analysis may give up, several at once when the process dies;
only people make comments go away; and nothing stays open. `ReviewApp`
implements it: an analysis is open while its job runs, and tokens, fetches and
pages are steps nobody sees. That there is one certificate, or that it is the
newest, is no part of `Bulletin`, because it does not hold
(`webhook_duplicate`).

### Action

A job uses the action `Uses` times; each use runs `certify.sh`, then
`comment.sh`. `Run` is a run of `revctl check` as the script sees it: it writes
the certificate and exits with what `applyGate` says, or fails before the file
is created and leaves whatever was there, or while it is written and leaves
nothing or a part. `Refuse`, `NoCertificate`, `NoVerdict`, `BadVerdict` and
`Report` are the exits of the script, in its order; `ReadBack` and `Render` are
its second and third run of the tool, whose exit codes it throws away. `Comment`
is `comment.sh`: it posts the file the outputs name unless it is empty or
GitHub refuses.

The workspace is the pull request's checkout (`certify.sh:44-47`), so `Init`
lets it hold any of `Checkouts`: certificates, whole or cut short, in any format,
committed with the change or left by a job before. They are those of use 0 and
may say anything a document can (`Documents`). The stage is the job's own and
begins empty. The script takes a file that is not empty for the one revctl was to
write (160, 181, 190), and the model does what it does.

Exit codes of 2 and above are one code, 2: the script only asks `-ge 2`. Not
modelled: the SARIF upload, the job summary, the conversation the comment lands
in, `resolve.sh` and `install.sh`.

### Provider

| Code (`provider.go`, `git.go`, `github.go`, `fs.go`) | Action or operator |
|---|---|
| `Resolve`: List, the caller's choice, Read | `phase`: `list`, `read`, `done` |
| `plan` resolves base, then head, in List and again in Read | `ResolveBase`, then `GitList` or `GitRead`, which name head |
| `merge-base`, `diff --name-status`, renames as a delete and an add | `MergeBase`, `Changes`, `ChangedPaths` |
| `listContext`: the siblings of what changed, bounded | `GitSiblings`, `GitHubSiblings` |
| `readChanges`, `readBlob` | `GitFile`, `Fetchable` |
| the comparison API, one entry for a rename, its limit | `CompareEntries`, `GitHubList` |
| `fetchFile`: the old side at base, the new one at head | `GitHubFile`, `GitHubRead` |
| `listTrees`, twice, then `readTrees`, twice | `ListAfter`, `ListBefore`, `ReadAfter`, `ReadBefore` |
| `choose` of the command and of the app | `Choose` |
| any command, request or system call fails; the context ends | `Fail` |

A commit never changes once it is named, so what git does behind two revisions
is one step, and a step ends where the code looks at something that can change:
a ref, or a directory. `Push` moves a ref and `Write` changes a file between any
two of them. GitHub is given commits, which do not move. Contents are opaque but
for being over the limit on a file. Paths are members of a set that have a
directory; which removed file became which new one is git's choice, any pairing
of files with the same contents. `Common` and `MergeBase` are git's, of a
history that is a graph with numbered commits; of several merge bases the
greatest is taken. Copies, submodules and the spelling of the answers are left
out. `seen` is history: the commits the refs have named.

### Parser

A parse tree is a record: the node, what it is about, the names in it, and of
the rest what a test of the code asks for. `Convert` lifts it to the statements
of the rule table: `OneKind`, `TwoKinds`, `DropKinds`, `RenameKinds`,
`VacuumKind` and `CreateAsKind` are the cases of `convert`, `Select` is
`convertSelect` with the WITH and the calls it looks into, `AlterTable` is one
statement for each command. `Creates`, `Drops` and `Symmetric` are the objects a
statement makes and removes and the comparison of an up with a down. Beside them
`Loses`, `Destroys`, `Makes` and `Unmakes` say what PostgreSQL does with a tree.
They are external, and what the properties compare the code with.

The grammar is outside: a script is blank, or does not parse (which includes
what `guardComplexity` refuses), or has its trees. `Grammatical` is the little
of it that the properties rest on: a DROP names something, and a WITH or a call
is in a statement that changes rows, in one that fills a table, or in a node
without a kind. Line and text of a statement are left out.

### Changeset

The composition: the files `Provider` returned are paired by place and identity
(`Identity`, `UpOf`, `DownOf`), and every up is looked at once, in any order:
`Missing`, or `Accompanied`, whose three answers each stand behind the one
before. What a content says is chosen when it is first parsed and kept
(`meaning`), so that one content is not read in two ways. The context may end at
any parse: what is parsed from there on does not parse. Two directories are the
same when their parents and their names are (`NamesAssumption`), and the trees of
a script are grammatical (`SaysAssumption`).

`LossNamed` is about what a tree loses itself, and about what its WITH and its
calls lose unless it is an INSERT, fills a table or is an ALTER TABLE: there the
code does not look (`changeset_archive` shows the first of them).

### Analyzer

The sentence of `analyzer.go:36-40` as a specification, in the words of none of
the three: what was met in the files an analyzer claims is owed an answer and
stays owed (`Look`); findings with a nil error answer all of it, what could not
be read with an UNKNOWN, and are about claimed files alone (`Report`); an error
comes with nothing (`Fail`); another call starts from nothing (`Again`). It has
no liveness: a caller waits as long as its context lets it.

| | owed an answer | told |
|---|---|---|
| `Postgres` | each statement, at its file and line; each migration that does not parse, at its line 1 | the findings, at theirs |
| `Kubernetes` | each illegible manifest, when it is read; each altered object (`Altered`), when all are | the findings of a file, and those of an object wherever it is |
| `Terraform` | each change of a managed resource (`Managed`); each plan that is none | the findings, at what they are about |

Each of the three states it as `ImplementsAnalyzer`; what is owed is said from
what there was to read, never from indexes, rules or findings. `NothingUnanswered` of each says more of the end
of a call (how many findings there are, which ones); it is a theorem.

### Postgres, PostgresRules and Database

`Database` is external: PostgreSQL's tables, columns, indexes and constraints,
when it refuses a statement, what a statement does, which values a type can
hold. The analyzer never sees it. `Postgres` runs it beside the analyzer, and
its properties compare the two.

| Code | Action or operator |
|---|---|
| the sort of `Analyze` (`postgres.go:84`) | `Sort`: `handed` is what the caller passed, `order` what is read |
| files that are removed, down migrations or no `.sql` | `PassOver` |
| `analyzeFile`, a file that does not parse or is refused | `Unparsable` |
| the same when the context ends just before the last parse | `Interrupted` |
| `classify`, then `schema.apply`, then the finding | `Read(s, line)` |
| `classify` and the rows of the table (`rules.go`) | `Classify` and the five groups of rows |
| `compareTypes`, `compareCharacter`, `compareNumeric` | `CompareTypes`, `CompareCharacter`, `CompareNumeric` |
| `schema.apply`, `schema.columnType` | `Tracking`, `Prior` |
| `SortFindings` and the return | `Return` |
| `ctx.Err()` before each file | `Cancelled` |
| `buildUndoPlan` | `Unwound`: the findings walked backwards over the database |

The statements of a file are chosen as they are read, from `Statements`, among
those the database accepts: a migration that cannot run has no undo to speak of.
A statement lies on a line of its own or shares the line of the one before it,
as the commands of one ALTER TABLE do. Undo steps are told apart as runnable,
partial (a human has to complete them), notes and absent; what a runnable step
does to the database is `UndoStep`.

Sorting is said by what it yields: `Sorted` has the arrangements in which no
member stands before a lesser one, and a stable sort is the order that breaks
ties by when a finding was made (`Before`). `script` is history: the statements
that were read, with the database and the schema each of them found; the
properties compare verdicts with it. A statement names tables where it means
tables and gives a column a type (`WellNamed`), and the database a changeset
meets is one that PostgreSQL can have got to (`Consistent`: columns are of
tables that are there, and nothing outlives what it lives on).

Names are keyed as the tracker keys them, without case or schema. The values of
defaults and of rows are left out. The rule table is a module of its own
(`PostgresRules`), because the statements the parser lifts are judged by it as
well. `Postgres` takes the statements as they are; where they come from is
`Parser`.

### Kubernetes

| Code (`kubernetes.go`, `object.go`, `rules.go`, `quantity.go`) | Action or operator |
|---|---|
| the sort of `Analyze` | `Sort`: `handed` is what the caller passed, `order` what is read |
| files that are no YAML | `PassOver` |
| `parseManifest` of the two sides | `Parsed`, `Fails`: one bad document ends its side |
| the new side does not parse | `Unparsable` |
| indexing both sides, and the keys of the new one unless the two are the same | `ReadKept` |
| `f.IsRemoved()`: the keys of the old side, or UNKNOWN if it does not parse | `ReadRemoved` |
| what is in the old index and not in the new one | `Touched` |
| `classify` and the rules | `Classify`, one operator per rule |
| `reclaimPolicy`, the first class met in a walk over a map | `Reclaims`: any of them |
| `parseQuantity` | `Size`, `Unreadable` |
| the findings are returned | `Return` |
| `ctx.Err()` before each file | `Cancelled` |

An object is its identity and a body with the fields the rules read, for its
kind, and `rest` for every other. A container has a name no other container of
the object has. Images are the ones with a digest and the others. A quantity is
a number and a suffix, compared in thousandths; the suffixes that need more than
TLC's integers, and the rounding of the code's floating point, are left out. The
findings are a set: sorting them decides nothing. Rationales and undo steps are
left out. The properties look at the changeset alone (`Stands`, `Holders`,
`Destroyed`), never at the indexes or at the rules, but for `LastFileWins`,
which says what the indexes are. Two things are taken as given: a removed file
has no new side (`ChangesetsAssumption`, as `git.go:444`, `fs.go:313` and the
GitHub provider leave it), and the number of a quantity is one
(`QuantitiesAssumption`).

### Terraform

| Code (`load.go`, `terraform.go`, `plan.go`, `rules.go`, `evidence.go`, `suggest.go`) | Action or operator |
|---|---|
| `resolvePolicy`, `policy.Load`: strict decoding, the version, a type and a class in each entry | `Load`, `RefuseFile`, `Legible` |
| classes in upper case, whatever the file has | `Resolve` |
| `New`: the overrides, one after the other | `ApplyOverride`, `RefuseOverride`, `Ready` |
| `AtLeastAsSevereAs` | `Severity`, in `Permitted` |
| `Supports`, files that are removed | `Supports`, `PassOver` |
| `decodePlan`, `analyzeFile` | `ReadPlan`, `AnalyzeFile` |
| `classify` and its three parts | `Classify`, `ClassifyDestroy`, `ClassifyUpdate`, `ClassOf` |
| the keys of `evidence.go` and the closed list of transitions | `StatefulEvidence`, `DisabledSafety`, `SafetyTransitions` |
| `ctx.Err()` once | `Cancelled` |
| `UnclassifiedTypes`, `PolicySnippet` | the same: one `terraform_types:` key and its entries |
| "Add to `.reversibility.yml`" (`markdown.go:579`) | a user puts the block there as it is (`Paste`), or its entries under the key that is there (`Merge`), and runs again |

Of an attribute's value the model keeps what the code asks: null, empty, a
boolean, a positive number or zero; of a block what its `enabled` says. What a
plan contains is chosen when it is first read and is the same in the second run.
Actions are those the code names as Terraform's (`plan.go:53-55`). Addresses,
digests, `SuggestClass` and the decoding of the catalog are left out; what the
validation of the catalog guarantees is an assumption (`TypesAssumption`).

A policy file is whether it says `version: 1` and the list behind each
`terraform_types:` key in it. YAML has a key once, and `UnmarshalStrict`
(`load.go:113`) refuses a file that has it twice. The other keys of a policy file
are `Certify`'s business, and spaces around a type or a class are left out.

## Runs

Passing runs; states are distinct states.

| Run | Instance | States | Shows |
|---|---|---|---|
| `certify` | 4 files in 2 directories, 2 analyzers, 5 findings, 3 policies, 3 snapshots | 965 k | eight invariants; the refinement of `Promise`, an answer included |
| `webhook` | 2 deliveries, 1 pull request, 1 installation, 1 person, clock to 4 | 1.1 M | four invariants; the refinement of `Bulletin`, an end included |
| `action` | 2 uses, 3 formats, fail-on-gate on and off, 10 conclusions, 3 checkouts | 5.6 M | five invariants |
| `changeset` | 8 paths in 2 directories, 5 commits, 3 pairs of directories, up to 2 pushes or 1 write, 8 ups and 7 downs | 175 k | five invariants |
| `postgres` | 2 migrations, 3 statements in all, 2 tables, 2 columns, an index, a constraint, 10 types | 632 k | four invariants; the refinement of `Analyzer` |
| `kubernetes` | 2 manifests of up to 3 documents, in either order | 388 k | six invariants; the refinement of `Analyzer` |
| `terraform` | 4 types, 13 policy files, 2 plans and a file that is none | 95 k | three invariants; the refinement of `Analyzer` |

`certify`: `PassMeansVouched`, `BrokenMeansF`, `WaiverStopsAtUnknown`,
`GradeNeverLifted`, `UndoPlanHonest`, `NothingReadNeverGraded`,
`DeadWaiversAreDead`, `TypeOK`, `ImplementsPromise`. The four files are one of each kind the coverage rules tell apart
(claimed in a migration directory, claimed elsewhere, a candidate nobody claims,
neither); every subset is read, listed or ignored. The five findings are one per
treatment: costly, irreversible, one a snapshot can make WILL_FAIL, one whose
lock it can measure, unknown. The policies have an expired and a redundant waiver,
waivers that must not fire, overrides beside waivers of the same rule, and
overrides that weaken. The snapshots disagree on nulls and on duration.

`webhook`: `FetchCalls` 1, `PageSize` 1, so every comment is a page of its own
and the walk can be overtaken at each; `MaxMishaps` 1, one restart or one deletion.
Liveness is checked over the whole graph at once, so the times are the smallest
that keep their order and let the clock move while an analysis has time left:
`ProcessingTimeout` and `InstallationTokenMargin` 2, equal as in the code (both
five minutes); `TokenLifetime` 3, so a token can be cached, be good for another
analysis, and be refused as stale; `MaxTime` 4, long enough for a second
analysis to begin after the first one's token has gone stale and to reach its own
deadline. A token is judged fresh at one tick and used in time at the next: with
the margin left out, TLC finds a job that goes on in time with a token that has
expired (the mutant of `TokenOutlivesJob`). Two analyses overlap, or follow one another, and either
can run into its deadline at each of its calls. `Receive` stops at `LastStart`,
so that the bound on the clock never cuts a deadline off. `Quoting` is empty in
the runs; the theorem on the walk holds for any value.

`action`: two uses are the smallest job in which a file of one use meets the
script of another. The ten conclusions are one of each kind an analysis can
reach; the theorems hold for every assessment. The gate is B: the conclusions lie
on either side of it and upon it, and two of them are below it in one grade and
not in the other. The checkout is clean, holds a whole certificate in every
format, or what a job that was cut short left; what such a certificate says
is no conclusion in grade and gate together, so that whoever reports it is seen
to.

`changeset`: the commits are a fork, a pull request, a base that moved on, a
head that is forced to another tree (which moves the second migration and gives
its down a name nobody claims), and an unrelated root. Two pushes are enough for
List and Read to see four different pairs of refs and for a phase to be split
by one; one write separates the two walks. The paths are a migration with its
down, another file of the same identity, an older migration, a pair in the
directory layout, a policy file and a text; `Hidden`, `Ignored` and the
pathspecs each hide one. `MaxChangedFiles` is 4 and refuses a comparison;
`MaxContextFiles` is out of reach of this repository, and its refusal is no
different from `Fail`. The ups are one for each shape of loss and of addition,
the downs take them back, in part or not at all.

`postgres`: two files are enough for the order of files to matter and for a
change to build on another file's; three statements for one to create, one to
build on it and one to convert, rename or index what was built. The database
they meet has a table with a NOT NULL column and a constraint that was never
validated. The types are one of each family at the sizes where its comparison
changes its mind: what a column is declared to be, and what it is converted to.
A column is declared in either file, and is dropped with its table or by itself,
or gets the name of another, between its declaration and its conversion.
`PlanUnwinds` has four premises, and
without the first three TLC refutes it at this size: statements that share a
line are unwound out of order; a statement that found its work done is undone
all the same; a promoted index or a validated constraint is dropped with its
constraint. The fourth, that no conversion meets a rename, takes four statements
to matter: a column declared in the changeset gives its name to another, which
is then judged, and undone, by the type of the first.

`kubernetes`: two files are enough for an object to move, to be defined twice,
to stay where another is dropped, and to be looked up from elsewhere. The
changesets are those of claims beside claims and beside storage classes, of
configuration beside the workloads that name it, and of workloads with one
field of each rule changed beside a file that is gone, a copy, a rename or no
YAML. The claims are one per answer: larger in digits and smaller in bytes (`1Mi`
to `1M`), unreadable, absent, of another class, beside a class of the same file,
beside a document that breaks it.
Three premises of its properties are needed, and TLC refutes each property
without its own. `Lone` in `Altered`: an object that two files defined
and one of them drops is taken to be where it was, with the body of the other
file. The siblings' parsing in `ContextIsSilent`: an untouched file that does
not parse gets an UNKNOWN of its own. `Ambiguous` in
`IrreversibleMeansDestroyed`: two classes of one name that disagree leave the
verdict to the walk over the map.
Some answers are weaker than a reader of the rules would expect, and no property
claims more: a finding on one field answers for the object, so that an
uncovered field that changed beside a covered one goes without a word; an image
that had a tag and gets a digest is REVERSIBLE; the objects of a touched file
that did not change themselves are UNKNOWN; a claim that goes from a modified
file whose old side does not parse goes unseen.

`terraform`: one type of each class and two that the catalog does not know, so
that a block has two entries. The first plan has any one change: every action on
every type, with every value the code tells apart of one attribute of each
sort; the second plan and the file that is no plan have few, which is enough
for a type to be met twice and for a block to cover several files. The policy
files tighten, classify, weaken the catalog, weaken what the line before said,
name no type, or a class in lower case or one that is none; and there are no
file, one without the key, one with the key twice and one without a version. The
block is pasted into each of them, and merged with each. `SnippetSettles` has two
halves: where the file then has a version and one key, the types are settled; in
any other file the run is refused and nothing is said of the plans.

Deadlock is not checked in any run, because each system comes to rest: the call
returns, the deliveries are dealt with and the clock is at its bound, the job
ends.

### Where the code does not do what is said of it

Each of these runs checks one sentence of the repository and finds it violated.

| Run | The sentence | What happens |
|---|---|---|
| `webhook_duplicate` | "one certificate showing the current state" (`comment.go:59-61`) | two analyses list, both find nothing, both create; the second comment is never edited again |
| `webhook_shutdown` | "an abrupt exit would drop certificates" as the reason for a graceful one (`server.go:153-155`) | the graceful one waits for handlers, not for the goroutines they started |
| `action_broken` | "a broken analysis is never a pass" (`action.yml:138`) | `runCheck` prints the error and goes on to the gate: exit 1, which `fail-on-gate: false` makes 0 |
| `postgres_spares` | "an undo plan that destroys a pre-existing object is worse than no undo plan" (`RULES.md:180-181`) | IF NOT EXISTS is never read: the statement that changed nothing is REVERSIBLE, and its plan drops the table |
| `changeset_archive` | "Where a statement type can carry a destructive effect ... it is classified by that effect or it is `UNKNOWN`" (`SPECIFICATION.md:255-258`) | the WITH of a SELECT is looked into, that of an INSERT is not: archiving rows with `WITH d AS (DELETE ...) INSERT ...` is COSTLY, and said to destroy nothing |

Others were met on the way. No run is spent on them; where a property had to be
stated around one, `hazards` says so.

- `certify.sh:7-9` says that every path that is not a completed analysis leaves
  "a grade F certificate on disk", and line 160 takes a certificate that is there
  for one that was produced. A run of revctl that fails before it creates its own
  leaves the one that was committed with the change, or left by an earlier use:
  the step exits 2, and its outputs, `gate-status` among them, and its comment are
  those of that certificate, although `action.yml:150-153` has an agent read
  `gate-status` and not the exit code. With JSON the stage then holds a copy, and
  a later use whose second run of revctl fails without a trace (`|| true`, 183)
  exits by its own analysis and reports the copy's verdict. Without a broken use
  before it, a use may still report the verdict of an earlier one in this way.
  `ExitsOnItsOwnCertificate` says what is left: the exit code is the use's own,
  and when the outputs are.
- `certify.sh:151` says that 1 is "below the gate" and 2 "the run did not
  complete". The F of an analysis that failed exits 1 (`check.go:294-300`); this
  is the other half of what `action_broken` shows, and why `RedMeansBelowGate`
  does not say "measured".
- `markdown.go:579` prints a block under "Add to `.reversibility.yml`" that
  begins with `terraform_types:` (`suggest.go:61`). A policy file that has this
  key, or none of the `version: 1` that a new file would need, is refused with
  the block in it (`load.go:113`, `load.go:117`); its entries have to be put
  under the key that is there. `SnippetSettles` has both cases.
- `README.md:656` says a waiver cannot cover an UNKNOWN finding. An override of
  the same rule renames the verdict first (`policy.go:264`); the grade and the
  merge gate stay F and FAIL, the grade CI compares is lifted.
- `processor.go:65-67` says that every failure path produces a certificate. A
  fetch that used up the deadline is reported under the deadline it used up.
- `schema.go:217-218` says that losing integral digits or decimal places is
  narrowing. Precision and scale are compared, their difference is not:
  `numeric(2)` to `numeric(3,2)` is a widening.
- `SPECIFICATION.md:937` and `git.go:285-286` say that revisions are resolved
  once. `plan` runs in List and again in Read.
- `git.go:141-144` calls a previous side read at base "a transition nobody is
  proposing". The GitHub provider reads it there (`github.go:179`): a file that
  changed on base since the fork shows a change of somebody else's.
- `git.go:540-542` says analyzers generate no findings for a file whose content
  did not change. The Kubernetes analyzer does not; the other two never ask.
- `fs.go:84-86` says that a path that vanished is reported. The second walk does
  not meet it and says nothing (`fs.go:209`).
- `down.go:91-92` says every object the up creates should be dropped. Only the
  first object of a statement is lifted (`pgquery.go:737`), so a down that
  recreates the first table of a DROP of two is symmetric; a type has no name
  there, so any dropped type matches any other.

## Fairness

- `Certify`: weak fairness of `Work`. A certification is a plain call; the
  goroutine making it keeps running. Neither the panic nor the cancellation
  need ever happen.
- `ReviewApp`: weak fairness of each goroutine, which moves by itself (`Local`)
  or ends a wait at its deadline (`Expire`), and of the clock. None for GitHub's
  answers, for signals, crashes, people or the end of an orderly shutdown:
  `Bulletin`'s `Ends` holds although no call is ever answered.
- `Promise` and `Bulletin` take their liveness from these: that an answer comes,
  that what is open ends. `Analyzer` has none.
- `Action`, `Provider`, `Changeset` and the analyzers have no liveness property:
  a job is stopped from outside, and the others are loops over finite lists.

## Proofs

TLAPS checks every theorem for every value of the constants that satisfies the
named assumptions; none is left without a proof.

**Verdict** (lemmas, in `CertifyProofs`). `WorstIsLeast` and `MeasuredGradeType`: a score is a
grade. `OnlyCleanRunsEarnA`: what A implies of findings, errors, downs and
content. `WorseEvidenceScoresNoBetter`: if every finding of one set has a
counterpart in another that is at least as severe, locks at least as long and
has at least the same band, the other scores no better. The last is the one the
policy and enrichment rest on. Counting COSTLY findings under a map that makes
some of them worse is its hard part.

**Certify** (`CertifyProofs`). The inductive invariant is `TypeOK /\ Found /\
Shape`. `Found`: findings are finite, each is one an analyzer may report, and of
a file that was read and is claimed. `Shape`: what the certificate is made of:
broken, or `Certificate(Decide(enriched))` with `enriched = Enriched(findings)`.
The properties alone are not inductive, because they speak of a certificate and
the step that makes it speaks of findings that have to be known for what they
are. `EnrichmentRatchet` and `OverridesRatchet` say that enrichment and a policy
that is no error only move findings up the order of evidence; `EvidenceOnlyGrows`
joins them, and with `WorseEvidenceScoresNoBetter` gives `GradeNeverLifted`. All
eight invariants of the run are theorems. `PromiseIsKept` is the refinement but
for its liveness: the initial states are `Promise`'s, looking at analyzers is
`Look`, every way to return is `Give` of an assessment that the invariant and
`GradeNeverLifted`'s argument bound, and the rest stutters. Assumed: reports are finite,
findings with the same id are the same, no analyzer sets a duration band (none
does; only enrichment assigns one).

**ReviewApp** (`ReviewAppProofs`). The inductive invariant is `TypeOK /\ Cached /\
Written /\ \A d : Held(d, job[d])`. `Cached`: a cached token belongs to its installation.
`Written`: every graded comment was written by an analysis with a whole fetch.
`Held`: what the goroutine at each `pc` holds: a token good until its
deadline, a whole fetch if it has graded, a walk that has not passed the app's comment if it was `sure` of one.
The token argument needs the margin to cover the processing timeout
(`TimesAssumption`, five minutes each in the code) and GitHub's lifetime to
cover it as well. The walk argument rests on how `Append`, in-place edits and
`RemoveAt` move comments, stated once in `Appended`, `Removed` and
`UpsertedConversation`. All four invariants of the run are theorems.
`BulletinIsKept` is the refinement of `Bulletin` but for its liveness. It needs
a second invariant, `Told`: no two comments, of whatever conversation, have one
id (`Distinct`), a comment of the app is of an analysis that ended (`Spoken`),
and what an analysis holds when it reports is nothing or one comment with the
marker (`Ready`). Without the first, editing the comment that was found could
change two of them; without the second, a new comment of an analysis could be
its second one. An analysis that goes on, or stops without a word, is
`MovedUnseen`; the report is `PostedTold`; a process that ends closes at once
all that is open (`StopTold`).

**Action** (`ActionProofs`). The inductive invariant is `TypeOK /\ GateRan /\
FilesArePast /\ CopyIsOwn /\ StageTells /\ EndsOnce` with the four properties
(`Claims`). `GateRan`: past `inputs`, an `rc` below 2 is the code the gate gave to
this use's verdict, and the file that was asked for is this use's own.
`FilesArePast`: no file is of a use yet to come. `CopyIsOwn`: what a use that
asked for JSON reads back is a copy of what it was asked for. `StageTells`: the
stage holds nothing of before the job unless a use was broken or is about to
be. `EndsOnce`: a use
that is not over has no exit. All five invariants are theorems, for any number of
uses, any set of assessments, and any checkout with any certificates in it.

**NaturalFacts**: a non-empty set of naturals has a least member, and a bounded
one a greatest. Well-founded choice of the first waiver, the last override, the
first comment goes through these.

**Changeset** (`ChangesetProofs`). `FilesShowOneTransition` and
`EverythingIsRead`, of the composition. The inductive invariant joins the two
properties with `Moving` (the refs are among what they have named),
`HalfFollows` (the first half of a phase named a commit base has named, or saw
one side, and the present one if nothing moved), `ListingFollows` (what is
enumerated and wanted is chosen from a listing that is complete if nothing
moved) and `EntriesFollow` (what an entry of a comparison says of the two
trees). The comparisons come first: what `Changes`, `ChangedPaths` and
`CompareEntries` say of any two trees and any choice of renames. Nothing is
assumed of histories but that parents come first.

The other three invariants of the run come after them. `Typing` needs that a
file has the sides its status says (`Halved`), and that `Ancestry`, a recursive
function over a history, is what its equation says: there is a solution, the
least sets that are closed under parents (`AncestryEquation`). `Vouching`, which is about what parses and what is symmetric and not about what
merely exists, rests on `Reassured`: a status that reassures stands behind a down and an up that are
among the files in hand and were parsed (`Vouched`), and whatever is no longer
to be looked at was answered for. That symmetry is what it says goes through
all nodes (`SymmetryTakesBack`): what an up adds is among what `Creates` lifts,
and what `Drops` lifts is among what the down removes. `NamingLosses` goes
through them as well: a node that loses something is lifted to a kind of
`LosingKinds` or to a CASCADE, and no row of the table is lenient with those. It
rests on `SaysAssumption`: a DROP of nothing, or a WITH in a statement that can
have none, is destructive to `Destroys` and nothing to the code, and no parser
yields it.

**Postgres** (`PostgresProofs`). All four invariants of the run,
`NothingUnanswered` and the refinement of `Analyzer`, for any files, any number
of statements and any consistent database. The inductive invariant
speaks of the history: statements stand in the order they apply in (`InOrder`);
the database each one found is what the one before left, back to the one the
changeset met (`Chain`); the schema each one found says of a column what was
said of it last (`Said`), and, as long as nothing was renamed, no other type
than the database has (`Followed`); the findings are the answers to the
statements, in their order unless a file went unread or a line is shared
(`Aligned`), and none is missing, however they were sorted (`Answered`). `JudgedByItsPast` is `Said` and
`Aligned` at one statement. `PlanUnwinds` is `StepUndone` at each: a step that
is runnable, run on what its statement left, gives back what its statement
found. That is a lemma for each group of statements (`CreateTableUnwinds` to
`ConstraintChangeUnwinds`), over a database in which nothing outlives what it
lives on: where something does, dropping the table that was created would take
it away. `FromTheRight` joins the steps. The premises of the property are those
named under Runs. `NarrowingIsLossy` is about types alone: of any two that the
analyzer calls narrowing, `Keeps` says that the new one does not hold all values
of the old one. `ContractKept`, the refinement, needs one fact more of the
findings (`Placed`): none is of a file that is no migration, and that of a file
that did not parse is at its first line.

**Terraform** (`TerraformProofs`). All three invariants of the run,
`NothingUnanswered` and the refinement of `Analyzer`, for any catalog, policy
files and plans. The inductive invariant is `TypeOK` with `FileFollows` (the
policy is what the file says, and the file is legible, once it was loaded),
`CatalogFollows` (the catalog says of a type what the catalog that was embedded
or a line so far said, and stateful if any of them did), `PhaseFollows`,
`FindingsFollow` (the findings are the answers to what was read) and
`AddedFollows` (where an added block left one key in a file with a version, no
line of it is refused and every type the plans destroy has one; any other file is
not `Legible`, and `FileFollows` stops the run there). That a block of
entries, in whatever order and behind whatever list was accepted before, is
accepted and settles its types is the long part of it (`BlockBehindList`).

**Kubernetes** (`KubernetesProofs`). All six invariants of the run,
`NothingUnanswered` and the refinement of `Analyzer`, for any number of manifests
with any number of documents. The inductive invariant has
two halves. While files are read, `Reads` says that each index is what the files
seen so far say, the last in path order first of all (`IndexOf`, kept by
`IndexGrows` and `IndexSkips`), and `Gathers` what was touched and what was
refused. When the call has returned, `Answers` says that the findings are those
of the refused files and of the touched objects, and no others. The properties
are read off these: `EndSays` turns indexes into what the changeset says,
`DifferenceIsTouched` shows that an object that differs was looked at, and
`IrreversibleIsLost` goes through all rules. The proof of
`IrreversibleMeansDestroyed` needs the premise that a claim without a class has
none to keep its volume, whatever a class without a name says.

**Analyzer**, in the three modules above. The argument is the same in each. The
invariant says that what a call returned gave its caller answers all that it was
owed (`Settled`); what is owed grows while files are read (`OwedGrows`) and is
nothing before a file was read; so each step is a step of the contract or a
stutter (`StepKeepsContract`), and the whole specification, in which there is no
fairness, implies the contract (`ContractKept`).

*Only model-checked*: liveness under fairness, which the prover does not do:
`Promise`'s answer and `Bulletin`'s end, and with them the properties
`ImplementsPromise` and `ImplementsBulletin` as wholes, whose safety parts are
`PromiseIsKept` and `BulletinIsKept`. Every invariant of a passing run is a
theorem. No module uses a RECURSIVE operator. The five violated sentences are
counterexamples, which need no proof.

## Not modelled

- Digests, renderers, the certificate's JSON schema, `catalog`, `version`,
  fixtures: conversions of a finished value, no decision.
- Loading and merging snapshots, the collectors, `install.sh`, `resolve.sh`:
  input and output in a straight line, before a run begins.
- `provider/root.go`: in which namespace a path of a directory is decided. It is
  a computation on strings and on one look at the file system; the paths of the
  model are in the namespace already.
- PostgreSQL's grammar and the guard in front of it (`complexity.go`), which
  keeps deep nesting from the C stack: a script it refuses is one that does not
  parse. Its counters are over characters, which the model does not have.
- What runs before the recover boundary of `Certify` (`catalogs`): a panic
  there is the caller's.

## What could follow

- The conversation that `comment.sh` and the app share; `root.go` with roots
  that overlap.
