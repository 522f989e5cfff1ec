------------------------------ MODULE Provider ------------------------------
(***************************************************************************)
(* One provider.Resolve: a changeset is listed by name, the caller chooses *)
(* from the complete listing, and what was chosen is read.  Three sources  *)
(* answer: a git repository, GitHub's API and directories on disk.  While  *)
(* the call runs, refs are pushed and files are written; a commit, once    *)
(* named, never changes, so a step of the model is what the code does      *)
(* between two looks at something that can.                                *)
(*                                                                         *)
(* Contents are opaque, Absent is a path that is not there.  Any step may  *)
(* fail: a command, a request or a system call, or the caller's deadline.  *)
(***************************************************************************)
EXTENDS Integers, FiniteSets, Sequences, FiniteSetsExt

CONSTANTS
    Paths,           \* paths of the repository
    Dir,             \* Dir[p]: the directory of p
    Contents,        \* what a file may hold
    Oversized,       \* contents over the providers' limit on a file
    Absent,          \* a path that is not there
    Commits,         \* commits, numbered so that parents come first
    Parents,         \* Parents[c]: the parents of c
    Tree,            \* Tree[c][p]: what p holds at c
    Calls,           \* the [base, head] a run may be asked for
    Pushes,          \* commits a ref may be moved to while the call runs
    Disks,           \* the directories a run may be given
    Hidden,          \* paths below a directory the walk over a disk skips
    Scope,           \* what the pathspecs given to the git provider select
    PolicyFiles,     \* where a policy file may be
    Ignored,         \* what the policy's ignore list matches
    Supported,       \* what an analyzer claims
    MaxChangedFiles, \* a larger comparison is refused
    MaxContextFiles, \* so are more siblings
    MaxPushes,       \* bound on pushes during a call
    MaxWrites        \* and on writes

Versions == Contents \cup {Absent}
Trees    == [Paths -> Versions]

ASSUME CommitsAssumption ==
    /\ Commits \subseteq Nat /\ IsFiniteSet(Commits) /\ Pushes \subseteq Commits
    /\ Parents \in [Commits -> SUBSET Commits]
    /\ \A c \in Commits : \A d \in Parents[c] : d < c
    /\ Tree \in [Commits -> Trees]
    /\ Calls # {} /\ Calls \subseteq [base : Commits, head : Commits]

ASSUME PathsAssumption ==
    /\ Absent \notin Contents /\ Oversized \subseteq Contents
    /\ Hidden \cup Scope \cup PolicyFiles \cup Ignored \cup Supported \subseteq Paths
    /\ Disks \subseteq [before : Seq(Trees), after : Seq(Trees)]

ASSUME LimitsAssumption == {MaxChangedFiles, MaxContextFiles, MaxPushes, MaxWrites} \subseteq Nat

VARIABLES
    source,     \* "git", "github" or "fs"
    refs,       \* what the names given to git stand for; GitHub is given commits
    disk,       \* the directories given, each a list of roots
    moves,
    seen,       \* history: every commit either ref has named
    phase,
    half,       \* what the first half of a phase found out: {} or one thing
    listed,
    enumerated, \* paths coverage is measured against
    wanted,     \* entries chosen to be read
    files

vars == <<source, refs, disk, moves, seen, phase, half, listed, enumerated, wanted, files>>

world  == <<source, refs, disk, moves, seen>>
result == <<listed, enumerated, wanted, files>>

-----------------------------------------------------------------------------
(* Revisions. *)

Ancestry[c \in Commits] == {c} \cup UNION {Ancestry[d] : d \in Parents[c]}

\* The commit two others diverged from, if they ever were one.
Common(b, h)    == Ancestry[b] \cap Ancestry[h]
MergeBase(b, h) == Max(Common(b, h))

\* Mutant: the previous side is what base holds now.
PreviousOfBase(b, h) == b

\* Blobs on the previous side are read at the merge base.
PreviousRev(b, h) == MergeBase(b, h)

Differ(m, h) == {p \in Paths : Tree[m][p] # Tree[h][p]}

\* Which removed file became which new one is git's to say; here, those with
\* the same contents may be paired. Too many of them, and none is.
Renames(m, h) ==
    {rs \in SUBSET {r \in Differ(m, h) \X Differ(m, h) :
                      /\ Tree[h][r[1]] = Absent /\ Tree[m][r[2]] = Absent
                      /\ Tree[m][r[1]] = Tree[h][r[2]]} :
        \A r, s \in rs : r[1] = s[1] <=> r[2] = s[2]}

\* The entries of a three-dot comparison, in a part of the repository.
Changes(m, h, rs, within) ==
    {[status |-> "R", src |-> r[1], dst |-> r[2]] : r \in rs} \cup
    {[status |-> CASE Tree[m][p] = Absent -> "A"
                   [] Tree[h][p] = Absent -> "D"
                   [] OTHER               -> "M", src |-> p, dst |-> p] :
        p \in {q \in within \cap Differ(m, h) : \A r \in rs : q \notin {r[1], r[2]}}}

Entry(p, status) == [path |-> p, prev |-> {}, status |-> status]

-----------------------------------------------------------------------------
(* Choosing what to read, once over the complete listing. *)

\* The app asks whether an analyzer claims a path; the command also leaves out
\* the policy file, which configures the run, and what the policy ignores,
\* which the certificate names.
Choose(entries) ==
    LET out   == IF source = "github" THEN {} ELSE PolicyFiles \cup Ignored
        left  == {e \in entries : e.path \notin out}
    IN  /\ listed' = entries
        /\ enumerated' = {e.path : e \in left}
        /\ wanted' = {e \in left : e.path \in Supported}
        /\ phase' = "read"
        /\ half' = {}
        /\ UNCHANGED files

Readable(v) == v \notin Oversized \cup {Absent}

\* A side the status says is there has to be read, however large it is.
Fetchable(f) ==
    /\ f.status # "ADDED"   => Readable(f.was)
    /\ f.status # "REMOVED" => Readable(f.is)

Return(fs) ==
    /\ files' = fs
    /\ phase' = "done"
    /\ half' = {}
    /\ UNCHANGED <<listed, enumerated, wanted>>

\* Whatever fails, nothing is returned.
Fail ==
    /\ phase \notin {"done", "failed"}
    /\ phase' = "failed"
    /\ UNCHANGED <<world, half, result>>

-----------------------------------------------------------------------------
(* Git: both halves resolve the refs, each at its own moment. *)

ResolveBase ==
    /\ source = "git" /\ phase \in {"list", "read"} /\ half = {}
    /\ half' = {refs.base}
    /\ UNCHANGED <<world, phase, result>>

\* Mutant: a rename is listed by its new name alone.
RenamedOnce(changes) ==
    {Entry(c.dst, "ADDED")    : c \in {d \in changes : d.status \in {"A", "R"}}} \cup
    {Entry(c.src, "REMOVED")  : c \in {d \in changes : d.status = "D"}} \cup
    {Entry(c.dst, "MODIFIED") : c \in {d \in changes : d.status = "M"}}

\* A rename is listed, and read, as a delete plus an add.
ChangedPaths(changes) ==
    {Entry(c.dst, "ADDED")    : c \in {d \in changes : d.status \in {"A", "R"}}} \cup
    {Entry(c.src, "REMOVED")  : c \in {d \in changes : d.status \in {"D", "R"}}} \cup
    {Entry(c.dst, "MODIFIED") : c \in {d \in changes : d.status = "M"}}

\* What a tree holds beside the changed files, in the directories they are in.
Siblings(tree, within, known, dirs) ==
    {p \in within \ known : tree[p] # Absent /\ Dir[p] \in dirs}

GitSiblings(h, changed) ==
    LET known == {e.path : e \in changed}
    IN  Siblings(Tree[h], Scope, known, {Dir[p] : p \in known})

AsContext(siblings) == {Entry(p, "MODIFIED") : p \in siblings}

GitList ==
    /\ source = "git" /\ phase = "list"
    /\ \E b \in half : LET h == refs.head IN
       /\ Common(b, h) # {}
       /\ \E rs \in Renames(MergeBase(b, h), h) :
            /\ rs \subseteq Scope \X Scope
            /\ LET changed  == ChangedPaths(Changes(MergeBase(b, h), h, rs, Scope))
                   siblings == GitSiblings(h, changed)
               IN  /\ Cardinality(siblings) <= MaxContextFiles
                   /\ Choose(changed \cup AsContext(siblings))
    /\ UNCHANGED world

\* Mutant: a blob that is not there reads as nothing.
FileOfAnything(p, status, was, is) ==
    {[path |-> p, prev |-> {}, status |-> status, was |-> was, is |-> is]}

\* One file of a changeset, if its sides can be read.
File(p, status, was, is) ==
    {f \in {[path |-> p, prev |-> {}, status |-> status, was |-> was, is |-> is]} : Fetchable(f)}

\* A changed path has the sides its change gave it; any other was asked for as
\* context and has the same side twice.
GitFile(b, h, p) ==
    LET m == PreviousRev(b, h) IN
    CASE p \in Differ(MergeBase(b, h), h) /\ Tree[MergeBase(b, h)][p] = Absent ->
           File(p, "ADDED", Absent, Tree[h][p])
      [] p \in Differ(MergeBase(b, h), h) /\ Tree[h][p] = Absent ->
           File(p, "REMOVED", Tree[m][p], Absent)
      [] p \in Differ(MergeBase(b, h), h) /\ Absent \notin {Tree[MergeBase(b, h)][p], Tree[h][p]} ->
           File(p, "MODIFIED", Tree[m][p], Tree[h][p])
      [] OTHER -> File(p, "MODIFIED", Tree[h][p], Tree[h][p])

GitRead ==
    /\ source = "git" /\ phase = "read"
    /\ \E b \in half : LET h == refs.head IN
       /\ Common(b, h) # {}
       /\ \A e \in wanted : GitFile(b, h, e.path) # {}
       /\ Return(UNION {GitFile(b, h, e.path) : e \in wanted})
    /\ UNCHANGED world

-----------------------------------------------------------------------------
(* GitHub: the commits are part of the request, and a rename is one entry. *)

CompareEntries(changes) ==
    {[Entry(c.dst, "RENAMED") EXCEPT !.prev = {c.src}] : c \in {d \in changes : d.status = "R"}} \cup
    ChangedPaths({c \in changes : c.status # "R"})

\* Directories are listed at the base commit, those of the new names.
GitHubSiblings(b, changed) ==
    LET known == UNION {{e.path} \cup e.prev : e \in changed}
    IN  Siblings(Tree[b], Paths, known, {Dir[e.path] : e \in changed})

GitHubList ==
    /\ source = "github" /\ phase = "list"
    /\ Common(refs.base, refs.head) # {}
    /\ LET m == MergeBase(refs.base, refs.head) IN
       \E rs \in Renames(m, refs.head) :
          LET changed  == CompareEntries(Changes(m, refs.head, rs, Paths))
              siblings == GitHubSiblings(refs.base, changed)
          IN  /\ Cardinality(changed) <= MaxChangedFiles
              /\ Cardinality(siblings) <= MaxContextFiles
              /\ Choose(changed \cup AsContext(siblings))
    /\ UNCHANGED world

\* The old side is read at the base commit, under the old name.
GitHubFile(e) ==
    LET old == IF e.prev = {} THEN {e.path} ELSE e.prev
        was == IF e.status = "ADDED" THEN {Absent} ELSE {Tree[refs.base][p] : p \in old}
        is  == IF e.status = "REMOVED" THEN Absent ELSE Tree[refs.head][e.path]
    IN  {f \in {[path |-> e.path, prev |-> e.prev, status |-> e.status, was |-> w, is |-> is] : w \in was} :
           Fetchable(f)}

GitHubRead ==
    /\ source = "github" /\ phase = "read"
    /\ \A e \in wanted : GitHubFile(e) # {}
    /\ Return(UNION {GitHubFile(e) : e \in wanted})
    /\ UNCHANGED world

-----------------------------------------------------------------------------
(* Directories: each side is walked at its own moment, to list and to read. *)

\* A path is named relative to its root, so roots may share one.
Holding(roots, p) == {k \in DOMAIN roots : p \notin Hidden /\ roots[k][p] # Absent}
Names(roots)      == {p \in Paths : Holding(roots, p) # {}}

\* The root walked last is the one whose file is kept.
Held(roots, p) ==
    IF Holding(roots, p) = {} THEN Absent ELSE roots[Max(Holding(roots, p))][p]

\* Which side a path is on says what happened to it.
SideStatus(before, after, p) ==
    CASE p \notin before                -> "ADDED"
      [] p \in before /\ p \notin after -> "REMOVED"
      [] p \in before /\ p \in after    -> "MODIFIED"

ListAfter ==
    /\ source = "fs" /\ phase = "list" /\ half = {}
    /\ IF disk.before = << >>
       THEN Choose({Entry(p, "ADDED") : p \in Names(disk.after)})
       ELSE /\ half' = {Names(disk.after)}
            /\ UNCHANGED <<phase, result>>
    /\ UNCHANGED world

ListBefore ==
    /\ source = "fs" /\ phase = "list"
    /\ \E after \in half : LET before == Names(disk.before) IN
       Choose({Entry(p, SideStatus(before, after, p)) : p \in before \cup after})
    /\ UNCHANGED world

\* What a walk reads of the paths that were chosen: a path that is gone by now
\* is not met, and there is no limit on a file.
Walk(roots) == [p \in {e.path : e \in wanted} \cap Names(roots) |-> Held(roots, p)]

DiskFile(before, after, p) ==
    [path |-> p, prev |-> {}, status |-> SideStatus(DOMAIN before, DOMAIN after, p),
     was |-> IF p \in DOMAIN before THEN before[p] ELSE Absent,
     is  |-> IF p \in DOMAIN after  THEN after[p]  ELSE Absent]

ReadAfter ==
    /\ source = "fs" /\ phase = "read" /\ half = {}
    /\ LET after == Walk(disk.after) IN
       IF disk.before = << >>
       THEN Return({DiskFile(<< >>, after, p) : p \in DOMAIN after})
       ELSE /\ half' = {after}
            /\ UNCHANGED <<phase, result>>
    /\ UNCHANGED world

ReadBefore ==
    /\ source = "fs" /\ phase = "read"
    /\ \E after \in half : LET before == Walk(disk.before) IN
       Return({DiskFile(before, after, p) : p \in DOMAIN before \cup DOMAIN after})
    /\ UNCHANGED world

-----------------------------------------------------------------------------

\* Somebody pushes: a ref moves forward, or anywhere.
Push ==
    /\ source = "git" /\ phase \notin {"done", "failed"} /\ moves < MaxPushes
    /\ \E r \in {"base", "head"}, c \in Pushes :
          /\ refs' = [refs EXCEPT ![r] = c]
          /\ seen' = [seen EXCEPT ![r] = @ \cup {c}]
    /\ moves' = moves + 1
    /\ UNCHANGED <<source, disk, phase, half, result>>

\* Somebody writes or removes a file.
Write ==
    /\ source = "fs" /\ phase \notin {"done", "failed"} /\ moves < MaxWrites
    /\ \E side \in {"before", "after"} : \E k \in DOMAIN disk[side], p \in Paths, v \in Versions :
          disk' = [disk EXCEPT ![side][k][p] = v]
    /\ moves' = moves + 1
    /\ UNCHANGED <<source, refs, seen, phase, half, result>>

\* What a source does not look at is fixed.
Init ==
    /\ \/ source \in {"git", "github"} /\ refs \in Calls /\ disk = [before |-> << >>, after |-> << >>]
       \/ source = "fs" /\ refs = (CHOOSE c \in Calls : TRUE) /\ disk \in Disks
    /\ moves = 0
    /\ seen = [base |-> {refs.base}, head |-> {refs.head}]
    /\ phase = "list"
    /\ half = {}
    /\ listed = {} /\ enumerated = {} /\ wanted = {} /\ files = {}

Git    == ResolveBase \/ GitList \/ GitRead
GitHub == GitHubList \/ GitHubRead
FS     == ListAfter \/ ListBefore \/ ReadAfter \/ ReadBefore

Next == Git \/ GitHub \/ FS \/ Fail \/ Push \/ Write

Spec == Init /\ [][Next]_vars

-----------------------------------------------------------------------------
(* What must hold. *)

Statuses == {"ADDED", "REMOVED", "MODIFIED", "RENAMED"}

Entries == [path : Paths, prev : {{}} \cup {{p} : p \in Paths}, status : Statuses]

\* The status of a file says which of its sides are there.
TypeOK ==
    /\ source \in {"git", "github", "fs"} /\ refs \in [base : Commits, head : Commits]
    /\ moves \in 0 .. (IF source = "git" THEN MaxPushes ELSE MaxWrites)
    /\ seen.base \cup seen.head \subseteq Commits
    /\ phase \in {"list", "read", "done", "failed"}
    /\ listed \subseteq Entries /\ wanted \subseteq listed
    /\ enumerated \subseteq Paths
    /\ \A f \in files :
          /\ [path |-> f.path, prev |-> f.prev, status |-> f.status] \in Entries
          /\ CASE f.status = "ADDED"   -> f.was = Absent /\ f.is \in Contents
               [] f.status = "REMOVED" -> f.was \in Contents /\ f.is = Absent
               [] OTHER                -> f.was \in Contents /\ f.is \in Contents

Returned == phase = "done"

OldName(f) == IF f.prev = {} THEN f.path ELSE CHOOSE p \in f.prev : TRUE

\* All files of a changeset show the two sides of one transition, the one
\* under review: from the commit where head left base to head, whatever was
\* pushed while the call ran (GitHub's old side is read at base, so there base
\* must not have moved on); or from one directory to the other, as long as
\* nobody writes to them.
OneTransition ==
    Returned =>
        CASE source \in {"git", "github"} ->
               \E b \in seen.base, h \in seen.head :
                  /\ Common(b, h) # {}
                  /\ source = "github" => b = refs.base /\ h = refs.head
                  /\ \A f \in files :
                        /\ f.is = Tree[h][f.path]
                        /\ source = "git" \/ b = MergeBase(b, h) => f.was = Tree[MergeBase(b, h)][OldName(f)]
          [] source = "fs" /\ moves = 0 ->
               \A f \in files : f.was = Held(disk.before, f.path) /\ f.is = Held(disk.after, f.path)
          [] OTHER -> TRUE

\* What is compared, if nothing moved meanwhile: the differences of two
\* commits, or every file of the directories.
Affected ==
    IF source = "fs" THEN Names(disk.before) \cup Names(disk.after)
    ELSE Differ(MergeBase(refs.base, refs.head), refs.head) \cap (IF source = "git" THEN Scope ELSE Paths)

\* What the command leaves out, on purpose; the app leaves out nothing.
LeftOut == IF source = "github" THEN {} ELSE PolicyFiles \cup Ignored

OldNames(es) == UNION {e.prev : e \in es}

\* Nothing that was chosen goes missing on the way, and nothing that the change
\* affects is missing from what was chosen from or, if an analyzer claims it,
\* from what was read; in git, nor is anything beside it. (GitHub shows the old
\* name of a rename with the new one. With a push between listing and reading,
\* or a write, the files are chosen from another listing.)
NothingSlipsAway ==
    Returned =>
        LET read == {f.path : f \in files} IN
        /\ source # "fs" => {e.path : e \in wanted} = read
        /\ moves = 0 =>
              /\ \A p \in Affected \ LeftOut :
                    /\ p \in enumerated \cup OldNames(listed)
                    /\ p \in Supported => p \in read \cup OldNames(listed)
              /\ source = "git" =>
                    \A p \in Scope \ LeftOut, q \in Affected :
                       Dir[p] = Dir[q] /\ Tree[refs.head][p] # Absent => p \in enumerated
=============================================================================
