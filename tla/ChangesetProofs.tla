-------------------------- MODULE ChangesetProofs --------------------------
(***************************************************************************)
(* What a changeset shows, for any history, any directories, any choice of *)
(* analyzers and policy, and any number of pushes and writes meanwhile.    *)
(***************************************************************************)
EXTENDS Changeset, NaturalFacts, TLAPS

-----------------------------------------------------------------------------
(* The inductive invariant. *)

Moving ==
    /\ source \in {"git", "github", "fs"} /\ moves \in Nat
    /\ refs = [base |-> refs.base, head |-> refs.head]
    /\ seen = [base |-> seen.base, head |-> seen.head]
    /\ refs.base \in seen.base /\ refs.head \in seen.head

\* The first half of a phase named a commit base has named, or walked a side.
HalfFollows ==
    /\ source = "git" /\ phase \in {"list", "read"} =>
          half \subseteq seen.base /\ (moves = 0 => half \subseteq {refs.base})
    /\ source = "fs" /\ phase = "read" /\ moves = 0 => half \subseteq {Walk(disk.after)}
    /\ source = "fs" /\ phase = "list" =>
          half \subseteq SUBSET Paths /\ (moves = 0 => half \subseteq {Names(disk.after)})

PathsOf(es) == {e.path : e \in es}

\* A listing is complete as long as nothing moves, and what is enumerated and
\* read is chosen from it.
ListingFollows ==
    phase \in {"read", "done"} =>
        /\ enumerated = PathsOf({e \in listed : e.path \notin LeftOut})
        /\ wanted = {e \in listed : e.path \notin LeftOut /\ e.path \in Supported}
        /\ PathsOf(listed) \subseteq Paths
        /\ moves = 0 =>
              /\ Affected \subseteq PathsOf(listed) \cup OldNames(listed)
              /\ source = "git" =>
                    \A p \in Scope, q \in Affected :
                       Dir[p] = Dir[q] /\ Tree[refs.head][p] # Absent => p \in PathsOf(listed)

\* GitHub's entries say of the two commits what is there.
EntriesFollow ==
    source = "github" /\ phase \in {"read", "done"} =>
        /\ Common(refs.base, refs.head) # {}
        /\ \A e \in listed :
              /\ e.prev = {} \/ \E p \in Paths : e.prev = {p}
              /\ e.status = "REMOVED" => Tree[refs.head][e.path] = Absent
              /\ e.status = "ADDED" => e.prev = {} /\ Tree[MergeBase(refs.base, refs.head)][e.path] = Absent

IInv == Moving /\ HalfFollows /\ ListingFollows /\ EntriesFollow /\ OneTransition /\ NothingSlipsAway

-----------------------------------------------------------------------------
(* Comparisons. *)

\* Entries of a comparison are about paths, and their status says which side of
\* which path is not there.
Sound(m, h, cs) ==
    \A c \in cs :
        /\ c.src \in Paths /\ c.dst \in Paths
        /\ c.status \in {"A", "D", "M", "R"}
        /\ c.status \in {"A", "R"} => Tree[m][c.dst] = Absent
        /\ c.status \in {"D", "R"} => Tree[h][c.src] = Absent

LEMMA ChangesSound ==
    ASSUME NEW m, NEW h, NEW rs \in Renames(m, h), NEW within
    PROVE  Sound(m, h, Changes(m, h, rs, within))
<1> SUFFICES ASSUME NEW c \in Changes(m, h, rs, within)
             PROVE  /\ c.src \in Paths /\ c.dst \in Paths
                    /\ c.status \in {"A", "D", "M", "R"}
                    /\ c.status \in {"A", "R"} => Tree[m][c.dst] = Absent
                    /\ c.status \in {"D", "R"} => Tree[h][c.src] = Absent
  BY DEF Sound
<1> DEFINE rest == {q \in within \cap Differ(m, h) : \A r \in rs : q \notin {r[1], r[2]}}
<1>1. CASE \E r \in rs : c = [status |-> "R", src |-> r[1], dst |-> r[2]]
  <2>1. PICK r \in rs : c = [status |-> "R", src |-> r[1], dst |-> r[2]]
    BY <1>1
  <2>2. /\ r \in Differ(m, h) \X Differ(m, h)
        /\ Tree[h][r[1]] = Absent /\ Tree[m][r[2]] = Absent
    BY DEF Renames
  <2> QED BY <2>1, <2>2 DEF Differ
<1>2. CASE \E p \in rest : c = [status |-> CASE Tree[m][p] = Absent -> "A"
                                             [] Tree[h][p] = Absent -> "D"
                                             [] OTHER               -> "M", src |-> p, dst |-> p]
  <2>1. PICK p \in rest : c = [status |-> CASE Tree[m][p] = Absent -> "A"
                                            [] Tree[h][p] = Absent -> "D"
                                            [] OTHER               -> "M", src |-> p, dst |-> p]
    BY <1>2
  <2>2. p \in Paths /\ Tree[m][p] # Tree[h][p]
    BY DEF Differ
  <2>3. c.src = p /\ c.dst = p
    BY <2>1
  <2>4. CASE Tree[m][p] = Absent
    BY <2>1, <2>2, <2>3, <2>4
  <2>5. CASE Tree[h][p] = Absent
    BY <2>1, <2>2, <2>3, <2>5
  <2>6. CASE Tree[m][p] # Absent /\ Tree[h][p] # Absent
    BY <2>1, <2>2, <2>3, <2>6
  <2> QED BY <2>4, <2>5, <2>6
<1> QED BY <1>1, <1>2 DEF Changes

\* Nothing that differs is missing from a comparison, on either side of it.
LEMMA ChangesComplete ==
    ASSUME NEW m, NEW h, NEW within, NEW rs \in Renames(m, h), rs \subseteq within \X within,
           NEW q \in Differ(m, h) \cap within
    PROVE  \E c \in Changes(m, h, rs, within) :
              \/ c.status = "R" /\ q \in {c.src, c.dst}
              \/ c.status \in {"A", "D", "M"} /\ c.src = q /\ c.dst = q
<1>1. CASE \E r \in rs : q \in {r[1], r[2]}
  <2>1. PICK r \in rs : q \in {r[1], r[2]}
    BY <1>1
  <2> DEFINE c == [status |-> "R", src |-> r[1], dst |-> r[2]]
  <2>2. c \in Changes(m, h, rs, within)
    BY DEF Changes
  <2>3. c.status = "R" /\ q \in {c.src, c.dst}
    BY <2>1
  <2> QED BY <2>2, <2>3
<1>2. CASE \A r \in rs : q \notin {r[1], r[2]}
  <2> DEFINE s == CASE Tree[m][q] = Absent -> "A"
                    [] Tree[h][q] = Absent -> "D"
                    [] OTHER               -> "M"
             c == [status |-> s, src |-> q, dst |-> q]
  <2>1. c \in Changes(m, h, rs, within)
    BY <1>2 DEF Changes
  <2>2. Tree[m][q] # Tree[h][q]
    BY DEF Differ
  <2>3. s \in {"A", "D", "M"}
    BY <2>2
  <2>4. c.status \in {"A", "D", "M"} /\ c.src = q /\ c.dst = q
    BY <2>3
  <2> QED BY <2>1, <2>4
<1> QED BY <1>1, <1>2

\* What is listed of such entries, a rename being a delete plus an add.
LEMMA ChangedPathsSound ==
    ASSUME NEW m, NEW h, NEW cs, Sound(m, h, cs), NEW e \in ChangedPaths(cs)
    PROVE  /\ e.path \in Paths /\ e.prev = {}
           /\ e.status = "ADDED" => Tree[m][e.path] = Absent
           /\ e.status = "REMOVED" => Tree[h][e.path] = Absent
<1> USE DEF Sound
<1>1. CASE \E c \in cs : c.status \in {"A", "R"} /\ e = Entry(c.dst, "ADDED")
  BY <1>1 DEF Entry
<1>2. CASE \E c \in cs : c.status \in {"D", "R"} /\ e = Entry(c.src, "REMOVED")
  BY <1>2 DEF Entry
<1>3. CASE \E c \in cs : c.status = "M" /\ e = Entry(c.dst, "MODIFIED")
  BY <1>3 DEF Entry
<1> QED BY <1>1, <1>2, <1>3 DEF ChangedPaths

LEMMA ChangedPathsComplete ==
    ASSUME NEW cs, NEW c \in cs
    PROVE  /\ c.status = "R" => {c.src, c.dst} \subseteq PathsOf(ChangedPaths(cs))
           /\ c.status \in {"A", "M"} => c.dst \in PathsOf(ChangedPaths(cs))
           /\ c.status = "D" => c.src \in PathsOf(ChangedPaths(cs))
<1>1. \A p, status : Entry(p, status).path = p
  BY DEF Entry
<1>2. c.status \in {"A", "R"} => Entry(c.dst, "ADDED") \in ChangedPaths(cs)
  BY DEF ChangedPaths
<1>3. c.status \in {"D", "R"} => Entry(c.src, "REMOVED") \in ChangedPaths(cs)
  BY DEF ChangedPaths
<1>4. c.status = "M" => Entry(c.dst, "MODIFIED") \in ChangedPaths(cs)
  BY DEF ChangedPaths
<1> QED BY <1>1, <1>2, <1>3, <1>4 DEF PathsOf

-----------------------------------------------------------------------------
(* Listing. *)

\* Whatever was listed, choosing from it keeps the invariant if the listing is
\* one of paths, is complete unless something moved and, on GitHub, is true.
LEMMA Chosen ==
    ASSUME IInv, UNCHANGED world, phase = "list", NEW X, Choose(X), PathsOf(X) \subseteq Paths,
           moves = 0 => Affected \subseteq PathsOf(X) \cup OldNames(X),
           moves = 0 /\ source = "git" =>
               \A p \in Scope, q \in Affected :
                  Dir[p] = Dir[q] /\ Tree[refs.head][p] # Absent => p \in PathsOf(X),
           source = "github" =>
               /\ Common(refs.base, refs.head) # {}
               /\ \A e \in X :
                     /\ e.prev = {} \/ \E p \in Paths : e.prev = {p}
                     /\ e.status = "REMOVED" => Tree[refs.head][e.path] = Absent
                     /\ e.status = "ADDED" => e.prev = {} /\ Tree[MergeBase(refs.base, refs.head)][e.path] = Absent
    PROVE  IInv'
<1>0. UNCHANGED <<source, refs, disk, moves, seen>>
  BY DEF world
<1>1. phase' = "read" /\ half' = {} /\ listed' = X
  BY DEF Choose
<1>2. /\ enumerated' = PathsOf({e \in X : e.path \notin LeftOut})
      /\ wanted' = {e \in X : e.path \notin LeftOut /\ e.path \in Supported}
  BY DEF Choose, LeftOut, PathsOf
<1>3. LeftOut' = LeftOut /\ Affected' = Affected
  BY <1>0 DEF LeftOut, Affected, Names, Holding
<1>4. Moving'
  BY <1>0 DEF IInv, Moving
<1>5. HalfFollows'
  BY <1>1 DEF HalfFollows
<1>6. ListingFollows'
  BY <1>0, <1>1, <1>2, <1>3 DEF ListingFollows
<1>7. EntriesFollow'
  BY <1>0, <1>1 DEF EntriesFollow
<1>8. OneTransition' /\ NothingSlipsAway'
  BY <1>1 DEF OneTransition, NothingSlipsAway, Returned
<1> QED BY <1>4, <1>5, <1>6, <1>7, <1>8 DEF IInv

LEMMA PathsOfUnion ==
    ASSUME NEW A, NEW B
    PROVE  PathsOf(A \cup B) = PathsOf(A) \cup PathsOf(B)
BY DEF PathsOf

\* Context is listed by its own paths.
LEMMA ContextSound ==
    ASSUME NEW S
    PROVE  /\ PathsOf(AsContext(S)) = S
           /\ \A e \in AsContext(S) : e.prev = {} /\ e.status = "MODIFIED"
<1>1. \A p \in S : Entry(p, "MODIFIED") \in AsContext(S) /\ Entry(p, "MODIFIED").path = p
  BY DEF AsContext, Entry
<1>2. \A e \in AsContext(S) : \E p \in S : e = Entry(p, "MODIFIED")
  BY DEF AsContext
<1>3. \A e \in AsContext(S) : e.path \in S /\ e.prev = {} /\ e.status = "MODIFIED"
  BY <1>2 DEF Entry
<1>4. PathsOf(AsContext(S)) = S
  BY <1>1, <1>3 DEF PathsOf
<1> QED BY <1>3, <1>4

LEMMA GitListInv ==
    ASSUME IInv, GitList
    PROVE  IInv'
<1>0. Scope \in SUBSET Paths
  BY PathsAssumption
<1>h. PICK h : h = refs.head
  OBVIOUS
<1>1. /\ source = "git" /\ phase = "list" /\ UNCHANGED world
      /\ \E b \in half :
            \E rs \in Renames(MergeBase(b, h), h) :
               /\ rs \subseteq Scope \X Scope
               /\ LET changed  == ChangedPaths(Changes(MergeBase(b, h), h, rs, Scope))
                      siblings == GitSiblings(h, changed)
                  IN  Choose(changed \cup AsContext(siblings))
  BY <1>h DEF GitList
<1>2. PICK b \in half :
        \E rs \in Renames(MergeBase(b, h), h) :
           /\ rs \subseteq Scope \X Scope
           /\ LET changed  == ChangedPaths(Changes(MergeBase(b, h), h, rs, Scope))
                  siblings == GitSiblings(h, changed)
              IN  Choose(changed \cup AsContext(siblings))
  BY <1>1
<1>m. PICK m : m = MergeBase(b, h)
  OBVIOUS
<1>3. PICK rs \in Renames(m, h) :
        /\ rs \subseteq Scope \X Scope
        /\ LET changed  == ChangedPaths(Changes(m, h, rs, Scope))
               siblings == GitSiblings(h, changed)
           IN  Choose(changed \cup AsContext(siblings))
  BY <1>2, <1>m
<1> DEFINE cs       == Changes(m, h, rs, Scope)
           changed  == ChangedPaths(cs)
           siblings == GitSiblings(h, changed)
           X        == changed \cup AsContext(siblings)
<1>4. Choose(X)
  BY <1>3
<1>5. \A e \in changed : e.path \in Paths
  <2>1. Sound(m, h, cs)
    BY ChangesSound
  <2> HIDE DEF cs
  <2> QED BY <2>1, ChangedPathsSound
<1>6. Differ(m, h) \cap Scope \subseteq PathsOf(changed)
  <2>1. SUFFICES ASSUME NEW q \in Differ(m, h) \cap Scope
                 PROVE  q \in PathsOf(changed)
    OBVIOUS
  <2>2. PICK c \in cs :
          \/ c.status = "R" /\ q \in {c.src, c.dst}
          \/ c.status \in {"A", "D", "M"} /\ c.src = q /\ c.dst = q
    BY <1>3, ChangesComplete
  <2> HIDE DEF cs
  <2> QED BY <2>2, ChangedPathsComplete
<1>7. /\ PathsOf(X) = PathsOf(changed) \cup siblings
      /\ PathsOf(X) \subseteq Paths
      /\ \A p \in Scope, q \in PathsOf(changed) : Dir[p] = Dir[q] /\ Tree[h][p] # Absent => p \in PathsOf(X)
  <2> DEFINE known == PathsOf(changed)
             dirs  == {Dir[p] : p \in known}
  <2>1. siblings = Siblings(Tree[h], Scope, known, dirs)
    BY DEF GitSiblings, PathsOf
  <2>2. known \subseteq Paths
    BY <1>5 DEF PathsOf
  <2> HIDE DEF changed, siblings, known, dirs
  <2>3. PathsOf(AsContext(siblings)) = siblings /\ siblings \subseteq Paths
    <3>1. siblings \subseteq Paths
      BY <1>0, <2>1 DEF Siblings
    <3> QED BY <3>1, ContextSound
  <2>4. PathsOf(X) = known \cup siblings
    BY <2>3, PathsOfUnion DEF known
  <2>5. ASSUME NEW p \in Scope, NEW q \in known, Dir[p] = Dir[q], Tree[h][p] # Absent
        PROVE  p \in known \cup siblings
    BY <2>1, <2>5 DEF Siblings, dirs
  <2> QED BY <2>2, <2>3, <2>4, <2>5 DEF known
<1>8. moves = 0 => Affected = Differ(m, h) \cap Scope
  BY <1>1, <1>h, <1>2, <1>m DEF IInv, HalfFollows, Affected
<1> HIDE DEF X, changed, siblings, cs
<1>9. PICK Y : Y = X
  OBVIOUS
<1> QED BY <1>1, <1>h, <1>4, <1>6, <1>7, <1>8, <1>9, Chosen

\* GitHub lists a rename once, with the old name in it.
LEMMA CompareSound ==
    ASSUME NEW m, NEW h, NEW cs, Sound(m, h, cs), NEW e \in CompareEntries(cs)
    PROVE  /\ e.path \in Paths
           /\ e.prev = {} \/ \E p \in Paths : e.prev = {p}
           /\ e.status = "REMOVED" => Tree[h][e.path] = Absent
           /\ e.status = "ADDED" => e.prev = {} /\ Tree[m][e.path] = Absent
<1>1. CASE \E c \in cs : c.status = "R" /\ e = [Entry(c.dst, "RENAMED") EXCEPT !.prev = {c.src}]
  BY <1>1 DEF Entry, Sound
<1>2. CASE e \in ChangedPaths({c \in cs : c.status # "R"})
  <2>1. Sound(m, h, {c \in cs : c.status # "R"})
    BY DEF Sound
  <2> QED BY <1>2, <2>1, ChangedPathsSound
<1> QED BY <1>1, <1>2 DEF CompareEntries

LEMMA CompareComplete ==
    ASSUME NEW cs, NEW c \in cs
    PROVE  /\ c.status = "R" => {c.src, c.dst} \subseteq PathsOf(CompareEntries(cs)) \cup OldNames(CompareEntries(cs))
           /\ c.status \in {"A", "M"} => c.dst \in PathsOf(CompareEntries(cs))
           /\ c.status = "D" => c.src \in PathsOf(CompareEntries(cs))
<1>1. CASE c.status = "R"
  <2> DEFINE e == [Entry(c.dst, "RENAMED") EXCEPT !.prev = {c.src}]
  <2>1. e \in CompareEntries(cs)
    BY <1>1 DEF CompareEntries
  <2>2. e.path = c.dst /\ e.prev = {c.src}
    BY DEF Entry
  <2> QED BY <1>1, <2>1, <2>2 DEF PathsOf, OldNames
<1>2. CASE c.status # "R"
  <2>1. c \in {d \in cs : d.status # "R"}
    BY <1>2
  <2>2. PathsOf(ChangedPaths({d \in cs : d.status # "R"})) \subseteq PathsOf(CompareEntries(cs))
    BY DEF PathsOf, CompareEntries
  <2> QED BY <1>2, <2>1, <2>2, ChangedPathsComplete
<1> QED BY <1>1, <1>2

LEMMA GitHubListInv ==
    ASSUME IInv, GitHubList
    PROVE  IInv'
<1>h. PICK h : h = refs.head
  OBVIOUS
<1>b. PICK b : b = refs.base
  OBVIOUS
<1>m. PICK m : m = MergeBase(b, h)
  OBVIOUS
<1>1. /\ source = "github" /\ phase = "list" /\ UNCHANGED world /\ Common(refs.base, refs.head) # {}
      /\ \E rs \in Renames(m, h) :
            LET changed == CompareEntries(Changes(m, h, rs, Paths))
            IN  Choose(changed \cup AsContext(GitHubSiblings(b, changed)))
  BY <1>h, <1>b, <1>m DEF GitHubList
<1>2. PICK rs \in Renames(m, h) :
        LET changed == CompareEntries(Changes(m, h, rs, Paths))
        IN  Choose(changed \cup AsContext(GitHubSiblings(b, changed)))
  BY <1>1
<1> DEFINE cs       == Changes(m, h, rs, Paths)
           changed  == CompareEntries(cs)
           siblings == GitHubSiblings(b, changed)
           X        == changed \cup AsContext(siblings)
<1>3. Choose(X)
  BY <1>2
<1>4. Sound(m, h, cs)
  BY ChangesSound
<1>5. Differ(m, h) \subseteq PathsOf(changed) \cup OldNames(changed)
  <2>1. SUFFICES ASSUME NEW q \in Differ(m, h)
                 PROVE  q \in PathsOf(changed) \cup OldNames(changed)
    OBVIOUS
  <2>2. q \in Differ(m, h) \cap Paths /\ rs \subseteq Paths \X Paths
    BY DEF Differ, Renames
  <2>3. PICK c \in cs :
          \/ c.status = "R" /\ q \in {c.src, c.dst}
          \/ c.status \in {"A", "D", "M"} /\ c.src = q /\ c.dst = q
    BY <2>2, ChangesComplete
  <2> HIDE DEF cs
  <2> QED BY <2>3, CompareComplete
<1> HIDE DEF cs
<1>6. \A e \in changed :
         /\ e.path \in Paths
         /\ e.prev = {} \/ \E p \in Paths : e.prev = {p}
         /\ e.status = "REMOVED" => Tree[h][e.path] = Absent
         /\ e.status = "ADDED" => e.prev = {} /\ Tree[m][e.path] = Absent
  BY <1>4, CompareSound
<1>7. /\ PathsOf(AsContext(siblings)) \subseteq Paths
      /\ \A e \in AsContext(siblings) : e.prev = {} /\ e.status = "MODIFIED"
  <2> DEFINE known == UNION {{e.path} \cup e.prev : e \in changed}
             dirs  == {Dir[e.path] : e \in changed}
  <2>1. siblings = Siblings(Tree[b], Paths, known, dirs)
    BY DEF GitHubSiblings
  <2> HIDE DEF siblings, changed, known, dirs
  <2>2. siblings \subseteq Paths
    BY <2>1 DEF Siblings
  <2> QED BY <2>2, ContextSound
<1> HIDE DEF changed, siblings
<1>8. PathsOf(X) \subseteq Paths
  BY <1>6, <1>7, PathsOfUnion DEF PathsOf
<1>9. Affected \subseteq PathsOf(X) \cup OldNames(X)
  <2>1. Affected \subseteq Differ(m, h)
    BY <1>1, <1>h, <1>b, <1>m DEF Affected
  <2>2. OldNames(changed) \subseteq OldNames(X)
    BY DEF OldNames
  <2> QED BY <1>5, <2>1, <2>2, PathsOfUnion
<1>10. \A e \in X :
          /\ e.prev = {} \/ \E p \in Paths : e.prev = {p}
          /\ e.status = "REMOVED" => Tree[refs.head][e.path] = Absent
          /\ e.status = "ADDED" => e.prev = {} /\ Tree[MergeBase(refs.base, refs.head)][e.path] = Absent
  BY <1>h, <1>b, <1>m, <1>6, <1>7
<1> HIDE DEF X
<1>11. PICK Y : Y = X
  OBVIOUS
<1> QED BY <1>1, <1>3, <1>8, <1>9, <1>10, <1>11, Chosen

LEMMA EntryPath == \A p, status : Entry(p, status).path = p
BY DEF Entry

LEMMA NamesArePaths == \A roots : Names(roots) \subseteq Paths
BY DEF Names

LEMMA ListAfterInv ==
    ASSUME IInv, ListAfter
    PROVE  IInv'
<1>1. source = "fs" /\ phase = "list" /\ UNCHANGED world
  BY DEF ListAfter
<1>2. CASE disk.before = << >>
  <2> DEFINE X == {Entry(p, "ADDED") : p \in Names(disk.after)}
  <2>1. Choose(X)
    BY <1>2 DEF ListAfter
  <2>2. PathsOf(X) = Names(disk.after)
    BY EntryPath DEF PathsOf
  <2>3. Affected \subseteq PathsOf(X)
    <3>1. Names(disk.before) = {}
      BY <1>2 DEF Names, Holding
    <3> QED BY <1>1, <2>2, <3>1 DEF Affected
  <2> HIDE DEF X
  <2>4. PICK Y : Y = X
    OBVIOUS
  <2> QED BY <1>1, <2>1, <2>2, <2>3, <2>4, NamesArePaths, Chosen
<1>3. CASE disk.before # << >>
  <2>1. half' = {Names(disk.after)} /\ UNCHANGED <<phase, listed, enumerated, wanted, files>>
    BY <1>3 DEF ListAfter, result
  <2>2. UNCHANGED <<source, refs, disk, moves, seen>>
    BY <1>1 DEF world
  <2>3. Moving'
    BY <2>2 DEF IInv, Moving
  <2>4. HalfFollows'
    BY <1>1, <2>1, <2>2, NamesArePaths DEF HalfFollows, Names, Holding
  <2>5. ListingFollows' /\ EntriesFollow' /\ OneTransition' /\ NothingSlipsAway'
    BY <1>1, <2>1 DEF ListingFollows, EntriesFollow, OneTransition, NothingSlipsAway, Returned
  <2> QED BY <2>3, <2>4, <2>5 DEF IInv
<1> QED BY <1>2, <1>3

LEMMA ListBeforeInv ==
    ASSUME IInv, ListBefore
    PROVE  IInv'
<1>1. source = "fs" /\ phase = "list" /\ UNCHANGED world
  BY DEF ListBefore
<1>2. PICK after \in half :
        Choose({Entry(p, SideStatus(Names(disk.before), after, p)) : p \in Names(disk.before) \cup after})
  BY DEF ListBefore
<1> DEFINE before == Names(disk.before)
           X == {Entry(p, SideStatus(before, after, p)) : p \in before \cup after}
<1>3. Choose(X)
  BY <1>2
<1>4. PathsOf(X) = before \cup after
  <2> HIDE DEF before
  <2> QED BY EntryPath DEF PathsOf
<1>5. PathsOf(X) \subseteq Paths
  BY <1>1, <1>4, NamesArePaths DEF IInv, HalfFollows
<1>6. moves = 0 => Affected \subseteq PathsOf(X)
  BY <1>1, <1>4 DEF IInv, HalfFollows, Affected
<1> HIDE DEF X
<1>7. PICK Y : Y = X
  OBVIOUS
<1> QED BY <1>1, <1>3, <1>5, <1>6, <1>7, Chosen

-----------------------------------------------------------------------------
(* Reading. *)

\* What is returned for what was wanted keeps the invariant if it shows one
\* transition and leaves nothing out.
LEMMA Returning ==
    ASSUME IInv, UNCHANGED world, phase = "read", NEW fs, Return(fs),
           OneTransition',
           source # "fs" => PathsOf(wanted) = PathsOf(fs),
           moves = 0 => PathsOf(wanted) \cap Affected \subseteq PathsOf(fs)
    PROVE  IInv'
<1>0. UNCHANGED <<source, refs, disk, moves, seen>>
  BY DEF world
<1>1. phase' = "done" /\ half' = {} /\ files' = fs /\ UNCHANGED <<listed, enumerated, wanted>>
  BY DEF Return
<1>2. LeftOut' = LeftOut /\ Affected' = Affected
  BY <1>0 DEF LeftOut, Affected, Names, Holding
<1>3. Moving'
  BY <1>0 DEF IInv, Moving
<1>4. HalfFollows'
  BY <1>1 DEF HalfFollows
<1>5. ListingFollows'
  BY <1>0, <1>1, <1>2 DEF IInv, ListingFollows
<1>6. EntriesFollow'
  BY <1>0, <1>1 DEF IInv, EntriesFollow
<1>7. NothingSlipsAway'
  <2>1. source' # "fs" => PathsOf(wanted') = PathsOf(files')
    BY <1>0, <1>1
  <2>2. ASSUME moves' = 0, NEW p \in Affected' \ LeftOut'
        PROVE  /\ p \in enumerated' \cup OldNames(listed')
               /\ p \in Supported => p \in PathsOf(files') \cup OldNames(listed')
    <3>1. p \in PathsOf(listed) \cup OldNames(listed) /\ p \notin LeftOut /\ p \in Affected
      BY <1>0, <1>2, <2>2 DEF IInv, ListingFollows
    <3>2. ASSUME p \in PathsOf(listed)
          PROVE  p \in enumerated /\ (p \in Supported => p \in PathsOf(wanted))
      BY <3>1, <3>2 DEF IInv, ListingFollows, PathsOf
    <3>3. p \in PathsOf(wanted) => p \in PathsOf(fs)
      BY <1>0, <2>2, <3>1
    <3> QED BY <1>1, <3>1, <3>2, <3>3
  <2>3. ASSUME moves' = 0, source' = "git", NEW p \in Scope \ LeftOut', NEW q \in Affected',
               Dir[p] = Dir[q], Tree[refs'.head][p] # Absent
        PROVE  p \in enumerated'
    <3>1. p \in PathsOf(listed) /\ p \notin LeftOut
      BY <1>0, <1>2, <2>3 DEF IInv, ListingFollows
    <3> QED BY <1>1, <3>1 DEF IInv, ListingFollows, PathsOf
  <2>4. PathsOf(files') = {f.path : f \in files'} /\ PathsOf(wanted') = {e.path : e \in wanted'}
    BY DEF PathsOf
  <2> QED BY <2>1, <2>2, <2>3, <2>4 DEF NothingSlipsAway, Returned
<1> QED BY <1>3, <1>4, <1>5, <1>6, <1>7 DEF IInv

\* Both sides of a file git reads are those of the transition.
LEMMA GitFileSound ==
    ASSUME NEW b, NEW h, NEW p \in Paths, NEW f \in GitFile(b, h, p)
    PROVE  f.path = p /\ f.prev = {} /\ f.is = Tree[h][p] /\ f.was = Tree[MergeBase(b, h)][p]
<1>m. PICK m : m = MergeBase(b, h)
  OBVIOUS
<1>1. CASE p \in Differ(m, h) /\ Tree[m][p] = Absent
  <2>1. f = [path |-> p, prev |-> {}, status |-> "ADDED", was |-> Absent, is |-> Tree[h][p]]
    BY <1>m, <1>1 DEF GitFile, PreviousRev, File, Differ
  <2> QED BY <1>m, <1>1, <2>1
<1>2. CASE p \in Differ(m, h) /\ Tree[h][p] = Absent
  <2>1. f = [path |-> p, prev |-> {}, status |-> "REMOVED", was |-> Tree[m][p], is |-> Absent]
    BY <1>m, <1>2 DEF GitFile, PreviousRev, File, Differ
  <2> QED BY <1>m, <1>2, <2>1
<1>3. CASE p \in Differ(m, h) /\ Absent \notin {Tree[m][p], Tree[h][p]}
  <2>1. f = [path |-> p, prev |-> {}, status |-> "MODIFIED", was |-> Tree[m][p], is |-> Tree[h][p]]
    BY <1>m, <1>3 DEF GitFile, PreviousRev, File
  <2> QED BY <1>m, <2>1
<1>4. CASE p \notin Differ(m, h)
  <2>1. f = [path |-> p, prev |-> {}, status |-> "MODIFIED", was |-> Tree[h][p], is |-> Tree[h][p]]
    BY <1>m, <1>4 DEF GitFile, File
  <2>2. Tree[m][p] = Tree[h][p]
    BY <1>4 DEF Differ
  <2> QED BY <1>m, <2>1, <2>2
<1> QED BY <1>1, <1>2, <1>3, <1>4

LEMMA GitReadInv ==
    ASSUME IInv, GitRead
    PROVE  IInv'
<1>h. PICK h : h = refs.head
  OBVIOUS
<1>1. /\ source = "git" /\ phase = "read" /\ UNCHANGED world
      /\ \E b \in half :
            /\ Common(b, h) # {}
            /\ \A e \in wanted : GitFile(b, h, e.path) # {}
            /\ Return(UNION {GitFile(b, h, e.path) : e \in wanted})
  BY <1>h DEF GitRead
<1>2. PICK b \in half :
        /\ Common(b, h) # {}
        /\ \A e \in wanted : GitFile(b, h, e.path) # {}
        /\ Return(UNION {GitFile(b, h, e.path) : e \in wanted})
  BY <1>1
<1> DEFINE fs == UNION {GitFile(b, h, e.path) : e \in wanted}
<1>3. \A e \in wanted : e.path \in Paths
  BY <1>1 DEF IInv, ListingFollows, PathsOf
<1>4. \A f \in fs : \E e \in wanted : f \in GitFile(b, h, e.path)
  OBVIOUS
<1>5. PathsOf(fs) = PathsOf(wanted)
  <2>1. \A f \in fs : \E e \in wanted : f.path = e.path
    BY <1>3, <1>4, GitFileSound
  <2>2. ASSUME NEW e \in wanted
        PROVE  \E f \in fs : f.path = e.path
    <3>1. PICK f \in GitFile(b, h, e.path) : TRUE
      BY <1>2
    <3>2. f.path = e.path
      BY <1>3, GitFileSound
    <3> QED BY <3>2
  <2> HIDE DEF fs
  <2> QED BY <2>1, <2>2 DEF PathsOf
<1>6. \A f \in fs : f.is = Tree[h][f.path] /\ f.was = Tree[MergeBase(b, h)][OldName(f)]
  BY <1>3, <1>4, GitFileSound DEF OldName
<1> HIDE DEF fs
<1>7. UNCHANGED <<source, seen>> /\ files' = fs /\ b \in seen.base /\ h \in seen.head
  BY <1>1, <1>h, <1>2 DEF world, Return, fs, IInv, HalfFollows, Moving
<1>8. OneTransition'
  <2>1. Common(b, h) # {}
    BY <1>2
  <2> QED BY <1>1, <1>6, <1>7, <2>1 DEF OneTransition, OldName
<1>9. PICK Y : Y = fs
  OBVIOUS
<1> QED BY <1>1, <1>2, <1>5, <1>8, <1>9, Returning DEF fs

LEMMA GitHubReadInv ==
    ASSUME IInv, GitHubRead
    PROVE  IInv'
<1>h. PICK h : h = refs.head
  OBVIOUS
<1>b. PICK b : b = refs.base
  OBVIOUS
<1> DEFINE fs == UNION {GitHubFile(e) : e \in wanted}
<1>1. /\ source = "github" /\ phase = "read" /\ UNCHANGED world
      /\ \A e \in wanted : GitHubFile(e) # {}
      /\ Return(fs)
  BY DEF GitHubRead
<1>2. ASSUME NEW e \in wanted
      PROVE  /\ e.path \in Paths
             /\ e.prev = {} \/ \E p \in Paths : e.prev = {p}
             /\ e.status = "REMOVED" => Tree[h][e.path] = Absent
             /\ e.status = "ADDED" => e.prev = {} /\ Tree[MergeBase(b, h)][e.path] = Absent
  BY <1>h, <1>b, <1>1 DEF IInv, ListingFollows, EntriesFollow, PathsOf
<1>3. ASSUME NEW e \in wanted, NEW f \in GitHubFile(e)
      PROVE  /\ f.path = e.path
             /\ f.is = Tree[h][f.path]
             /\ b = MergeBase(b, h) => f.was = Tree[MergeBase(b, h)][OldName(f)]
  <2> DEFINE old == IF e.prev = {} THEN {e.path} ELSE e.prev
             was == IF e.status = "ADDED" THEN {Absent} ELSE {Tree[b][p] : p \in old}
             is  == IF e.status = "REMOVED" THEN Absent ELSE Tree[h][e.path]
  <2>1. PICK w \in was : f = [path |-> e.path, prev |-> e.prev, status |-> e.status, was |-> w, is |-> is]
    BY <1>h, <1>b DEF GitHubFile
  <2>2. f.path = e.path /\ f.prev = e.prev /\ f.is = is /\ f.was = w
    BY <2>1
  <2>3. PICK o : old = {o} /\ OldName(f) = o
    BY <1>2, <2>2 DEF OldName
  <2>4. CASE e.status = "ADDED"
    BY <1>2, <2>2, <2>3, <2>4
  <2>5. CASE e.status # "ADDED"
    <3>1. w = Tree[b][o]
      BY <2>3, <2>5
    <3> QED BY <1>2, <2>2, <2>3, <3>1
  <2> QED BY <2>4, <2>5
<1>4. PathsOf(fs) = PathsOf(wanted)
  <2>1. \A f \in fs : \E e \in wanted : f.path = e.path
    BY <1>3
  <2>2. ASSUME NEW e \in wanted
        PROVE  \E f \in fs : f.path = e.path
    <3>1. PICK f \in GitHubFile(e) : TRUE
      BY <1>1
    <3> QED BY <1>3
  <2> HIDE DEF fs
  <2> QED BY <2>1, <2>2 DEF PathsOf
<1>5. \A f \in fs : /\ f.is = Tree[h][f.path]
                    /\ b = MergeBase(b, h) => f.was = Tree[MergeBase(b, h)][OldName(f)]
  BY <1>3
<1> HIDE DEF fs
<1>6. UNCHANGED <<source, refs, seen>> /\ files' = fs /\ b \in seen.base /\ h \in seen.head
  BY <1>1, <1>h, <1>b DEF world, Return, IInv, Moving
<1>8. OneTransition'
  <2>1. phase' = "done"
    BY <1>1 DEF Return
  <2>2. Common(b, h) # {}
    BY <1>h, <1>b, <1>1 DEF IInv, EntriesFollow
  <2> QED BY <1>1, <1>h, <1>b, <1>5, <1>6, <2>1, <2>2 DEF OneTransition, OldName
<1>9. PICK Y : Y = fs
  OBVIOUS
<1> QED BY <1>1, <1>4, <1>8, <1>9, Returning

\* What two walks at one moment found are the two sides of the directories.
LEMMA WalksSound ==
    ASSUME NEW p \in PathsOf(wanted), NEW before, NEW after,
           before = Walk(disk.before), after = Walk(disk.after), p \in DOMAIN before \cup DOMAIN after
    PROVE  LET f == DiskFile(before, after, p) IN
           f.path = p /\ f.was = Held(disk.before, p) /\ f.is = Held(disk.after, p)
<1>1. \A roots : p \in DOMAIN Walk(roots) => Walk(roots)[p] = Held(roots, p)
  BY DEF Walk
<1>2. \A roots : p \notin DOMAIN Walk(roots) /\ p \in Paths => Held(roots, p) = Absent
  BY DEF Walk, PathsOf, Names, Held
<1>3. p \in Paths
  BY DEF Walk, Names
<1> QED BY <1>1, <1>2, <1>3 DEF DiskFile

LEMMA ReadAfterInv ==
    ASSUME IInv, ReadAfter
    PROVE  IInv'
<1>1. source = "fs" /\ phase = "read" /\ UNCHANGED world
  BY DEF ReadAfter
<1>w. UNCHANGED <<source, refs, disk, moves, seen>>
  BY <1>1 DEF world
<1>2. CASE disk.before = << >>
  <2> DEFINE after == Walk(disk.after)
             fs    == {DiskFile(<< >>, after, p) : p \in DOMAIN after}
  <2>1. Return(fs)
    BY <1>2 DEF ReadAfter
  <2>2. DOMAIN after = PathsOf(wanted) \cap Names(disk.after) /\ DOMAIN << >> = {}
    BY DEF Walk, PathsOf
  <2>3. \A p : Holding(disk.before, p) = {}
    BY <1>2 DEF Holding
  <2>4. \A p \in DOMAIN after : /\ DiskFile(<< >>, after, p).path = p
                                /\ DiskFile(<< >>, after, p).was = Held(disk.before, p)
                                /\ DiskFile(<< >>, after, p).is = Held(disk.after, p)
    BY <2>2, <2>3 DEF DiskFile, Held, Walk
  <2>5. PathsOf(fs) = DOMAIN after
    <3> HIDE DEF after
    <3> QED BY <2>4 DEF PathsOf
  <2>6. Affected \subseteq Names(disk.after)
    BY <1>1, <2>3 DEF Affected, Names
  <2>7. \A f \in fs : f.was = Held(disk.before, f.path) /\ f.is = Held(disk.after, f.path)
    BY <2>4
  <2>8. files' = fs
    BY <2>1 DEF Return
  <2> HIDE DEF fs, after
  <2>9. OneTransition'
    BY <1>1, <1>w, <2>7, <2>8 DEF OneTransition, Held, Holding
  <2>10. PICK Y : Y = fs
    OBVIOUS
  <2> QED BY <1>1, <2>1, <2>2, <2>5, <2>6, <2>9, <2>10, Returning
<1>3. CASE disk.before # << >>
  <2>1. half' = {Walk(disk.after)} /\ UNCHANGED <<phase, listed, enumerated, wanted, files>>
    BY <1>3 DEF ReadAfter, result
  <2>2. Moving'
    BY <1>w DEF IInv, Moving
  <2>3. HalfFollows'
    BY <1>1, <1>w, <2>1 DEF HalfFollows, Walk, Names, Holding, Held
  <2>4. ListingFollows'
    BY <1>w, <2>1 DEF IInv, ListingFollows, LeftOut, Affected, Names, Holding
  <2>5. EntriesFollow' /\ OneTransition' /\ NothingSlipsAway'
    BY <1>1, <1>w, <2>1 DEF EntriesFollow, OneTransition, NothingSlipsAway, Returned
  <2> QED BY <2>2, <2>3, <2>4, <2>5 DEF IInv
<1> QED BY <1>2, <1>3

LEMMA ReadBeforeInv ==
    ASSUME IInv, ReadBefore
    PROVE  IInv'
<1>1. source = "fs" /\ phase = "read" /\ UNCHANGED world
  BY DEF ReadBefore
<1>w. UNCHANGED <<source, refs, disk, moves, seen>>
  BY <1>1 DEF world
<1> DEFINE before == Walk(disk.before)
<1>2. PICK after \in half : Return({DiskFile(before, after, p) : p \in DOMAIN before \cup DOMAIN after})
  BY DEF ReadBefore
<1> DEFINE fs == {DiskFile(before, after, p) : p \in DOMAIN before \cup DOMAIN after}
<1>3. files' = fs /\ Return(fs)
  BY <1>2 DEF Return
<1>4. PathsOf(fs) = DOMAIN before \cup DOMAIN after
  <2>1. \A p : DiskFile(before, after, p).path = p
    BY DEF DiskFile
  <2> HIDE DEF before
  <2> QED BY <2>1 DEF PathsOf
<1>5. ASSUME moves = 0
      PROVE  /\ after = Walk(disk.after)
             /\ PathsOf(wanted) \cap Affected \subseteq PathsOf(fs)
             /\ \A f \in fs : f.was = Held(disk.before, f.path) /\ f.is = Held(disk.after, f.path)
  <2>1. after = Walk(disk.after)
    BY <1>1, <1>5 DEF IInv, HalfFollows
  <2>2. /\ DOMAIN before = PathsOf(wanted) \cap Names(disk.before)
        /\ DOMAIN after = PathsOf(wanted) \cap Names(disk.after)
    BY <2>1 DEF Walk, PathsOf
  <2>3. PathsOf(wanted) \cap Affected \subseteq PathsOf(fs)
    BY <1>1, <1>4, <2>2 DEF Affected
  <2>4. ASSUME NEW f \in fs
        PROVE  f.was = Held(disk.before, f.path) /\ f.is = Held(disk.after, f.path)
    <3>1. PICK p \in DOMAIN before \cup DOMAIN after : f = DiskFile(before, after, p)
      OBVIOUS
    <3>2. p \in PathsOf(wanted)
      BY <2>2
    <3>3. PICK w : w = before
      OBVIOUS
    <3> HIDE DEF before
    <3> QED BY <2>1, <3>1, <3>2, <3>3, WalksSound DEF before
  <2> QED BY <2>1, <2>3, <2>4
<1> HIDE DEF fs
<1>6. OneTransition'
  BY <1>1, <1>w, <1>3, <1>5 DEF OneTransition, Held, Holding
<1>7. PICK Y : Y = fs
  OBVIOUS
<1> QED BY <1>1, <1>3, <1>5, <1>6, <1>7, Returning

-----------------------------------------------------------------------------
(* The rest of the steps. *)

LEMMA InitInv ==
    ASSUME Init
    PROVE  IInv
<1> USE DEF Init
<1>1. refs \in Calls
  <2>1. CASE refs \in Calls
    BY <2>1
  <2>2. CASE source = "fs" /\ refs = (CHOOSE c \in Calls : TRUE) /\ disk \in Disks
    BY <2>2, CommitsAssumption
  <2> QED BY <2>1, <2>2
<1>2. Moving
  BY <1>1, CommitsAssumption DEF Moving
<1>3. HalfFollows /\ ListingFollows /\ EntriesFollow
  BY DEF HalfFollows, ListingFollows, EntriesFollow
<1>4. OneTransition /\ NothingSlipsAway
  BY DEF OneTransition, NothingSlipsAway, Returned
<1> QED BY <1>2, <1>3, <1>4 DEF IInv

LEMMA ResolveBaseInv ==
    ASSUME IInv, ResolveBase
    PROVE  IInv'
<1>1. /\ source = "git" /\ phase \in {"list", "read"} /\ half' = {refs.base}
      /\ UNCHANGED <<source, refs, disk, moves, seen, phase, listed, enumerated, wanted, files>>
  BY DEF ResolveBase, world, result
<1>2. Moving'
  BY <1>1 DEF IInv, Moving
<1>3. HalfFollows'
  BY <1>1 DEF IInv, Moving, HalfFollows
<1>4. ListingFollows' /\ EntriesFollow'
  BY <1>1 DEF IInv, ListingFollows, EntriesFollow, LeftOut, Affected, Names, Holding
<1>5. OneTransition' /\ NothingSlipsAway'
  BY <1>1 DEF OneTransition, NothingSlipsAway, Returned
<1> QED BY <1>2, <1>3, <1>4, <1>5 DEF IInv

LEMMA FailInv ==
    ASSUME IInv, Fail
    PROVE  IInv'
<1>1. phase' = "failed" /\ UNCHANGED <<source, refs, disk, moves, seen>>
  BY DEF Fail, world
<1>2. Moving'
  BY <1>1 DEF IInv, Moving
<1>3. HalfFollows' /\ ListingFollows' /\ EntriesFollow'
  BY <1>1 DEF HalfFollows, ListingFollows, EntriesFollow
<1>4. OneTransition' /\ NothingSlipsAway'
  BY <1>1 DEF OneTransition, NothingSlipsAway, Returned
<1> QED BY <1>2, <1>3, <1>4 DEF IInv

\* A push, or a write, ends what is only promised as long as nothing moves.
LEMMA MoveInv ==
    ASSUME IInv, Push \/ Write
    PROVE  IInv'
<1>1. phase \notin {"done", "failed"} /\ UNCHANGED <<source, phase, half, listed, enumerated, wanted, files>>
  BY DEF Push, Write, result
<1>2. moves' = moves + 1 /\ moves' \in Nat /\ moves' # 0
  BY DEF Push, Write, IInv, Moving
<1>3. Moving' /\ seen.base \subseteq seen'.base
  <2>1. CASE Push
    <3>1. PICK r \in {"base", "head"}, c \in Pushes :
            refs' = [refs EXCEPT ![r] = c] /\ seen' = [seen EXCEPT ![r] = @ \cup {c}]
      BY <2>1 DEF Push
    <3>2. CASE r = "base"
      BY <1>1, <1>2, <3>1, <3>2 DEF IInv, Moving
    <3>3. CASE r = "head"
      BY <1>1, <1>2, <3>1, <3>3 DEF IInv, Moving
    <3> QED BY <3>2, <3>3
  <2>2. CASE Write
    BY <1>1, <1>2, <2>2 DEF Write, IInv, Moving
  <2> QED BY <2>1, <2>2
<1>4. HalfFollows'
  BY <1>1, <1>2, <1>3 DEF IInv, HalfFollows
<1>5. ListingFollows'
  BY <1>1, <1>2 DEF IInv, ListingFollows, LeftOut
<1>6. EntriesFollow'
  <2>1. source = "github" => FALSE
    BY DEF Push, Write
  <2> QED BY <1>1, <2>1 DEF EntriesFollow
<1>7. OneTransition' /\ NothingSlipsAway'
  BY <1>1 DEF OneTransition, NothingSlipsAway, Returned
<1> QED BY <1>3, <1>4, <1>5, <1>6, <1>7 DEF IInv

LEMMA InvPreserved ==
    ASSUME IInv, Next \/ UNCHANGED vars
    PROVE  IInv'
<1>1. CASE Git
  BY <1>1, ResolveBaseInv, GitListInv, GitReadInv DEF Git
<1>2. CASE GitHub
  BY <1>2, GitHubListInv, GitHubReadInv DEF GitHub
<1>3. CASE FS
  BY <1>3, ListAfterInv, ListBeforeInv, ReadAfterInv, ReadBeforeInv DEF FS
<1>4. CASE Fail
  BY <1>4, FailInv
<1>5. CASE Push \/ Write
  BY <1>5, MoveInv
<1>6. CASE UNCHANGED vars
  <2>1. UNCHANGED <<source, refs, disk, moves, seen, phase, half, listed, enumerated, wanted, files>>
    BY <1>6 DEF vars
  <2>2. Moving'
    BY <2>1 DEF IInv, Moving
  <2>3. HalfFollows'
    <3>1. Names(disk.after)' = Names(disk.after) /\ Walk(disk.after)' = Walk(disk.after)
      BY <2>1 DEF Names, Holding, Walk, Held
    <3> QED BY <2>1, <3>1 DEF IInv, HalfFollows
  <2>4. EntriesFollow'
    BY <2>1 DEF IInv, EntriesFollow
  <2>5. ListingFollows'
    BY <2>1 DEF IInv, ListingFollows, LeftOut, Affected, Names, Holding
  <2>6. OneTransition'
    <3>1. \A p : Held(disk.before, p)' = Held(disk.before, p) /\ Held(disk.after, p)' = Held(disk.after, p)
      BY <2>1 DEF Held, Holding
    <3>2. CASE source = "fs"
      BY <2>1, <3>1, <3>2 DEF IInv, OneTransition, Returned
    <3>3. CASE source # "fs"
      BY <2>1, <3>3 DEF IInv, OneTransition, Returned, Moving
    <3> QED BY <3>2, <3>3
  <2>7. NothingSlipsAway'
    BY <2>1 DEF IInv, NothingSlipsAway, Returned, LeftOut, Affected, Names, Holding
  <2> QED BY <2>2, <2>3, <2>4, <2>5, <2>6, <2>7 DEF IInv
<1> QED BY <1>1, <1>2, <1>3, <1>4, <1>5, <1>6 DEF Next

\* The validation of the downs reads what the provider returned and leaves it.
LEMMA ValidationReads ==
    ASSUME ChangesetNext \/ UNCHANGED <<vars, downs>>
    PROVE  Next \/ UNCHANGED vars
<1>1. CASE Validation
  <2>1. \A id : Missing(id) \/ Accompanied(id) => UNCHANGED vars
    BY DEF Missing, Accompanied
  <2> QED BY <1>1, <2>1 DEF Validation, Begin, Refuse, Answer
<1> QED BY <1>1 DEF ChangesetNext

LEMMA AlwaysInv == ChangesetSpec => []IInv
<1>1. ChangesetInit => IInv
  BY InitInv DEF ChangesetInit
<1>2. IInv /\ [ChangesetNext]_<<vars, downs>> => IInv'
  BY InvPreserved, ValidationReads
<1> QED BY <1>1, <1>2, PTL DEF ChangesetSpec

-----------------------------------------------------------------------------
(* Types. *)

\* Ancestors are the commits that every set with the commit in it has to hold
\* if it holds the parents of its members: so there is a function that is what
\* Ancestry is defined to be.
LEMMA AncestryEquation ==
    Ancestry = [c \in Commits |-> {c} \cup UNION {Ancestry[d] : d \in Parents[c]}]
<1> DEFINE Closed(S) == \A x \in S : Parents[x] \subseteq S
           A == [c \in Commits |->
                    {d \in Commits : \A S \in SUBSET Commits : c \in S /\ Closed(S) => d \in S}]
<1>0. \A c \in Commits : Parents[c] \in SUBSET Commits
  BY CommitsAssumption
<1>1. ASSUME NEW c \in Commits
      PROVE  A[c] = {c} \cup UNION {A[d] : d \in Parents[c]}
  <2> DEFINE B == {c} \cup UNION {A[d] : d \in Parents[c]}
  <2>1. \A d \in Commits : d \in A[d] /\ A[d] \subseteq Commits
    OBVIOUS
  <2>2. B \in SUBSET Commits
    <3>1. \A d \in Parents[c] : A[d] \subseteq Commits
      BY <1>0, <2>1
    <3> HIDE DEF A
    <3> QED BY <3>1
  <2>3. ASSUME NEW x \in B, NEW y \in Parents[x]
        PROVE  y \in B
    <3>1. CASE x = c
      <4>1. y \in A[y]
        BY <1>0, <2>1, <3>1
      <4> QED BY <3>1, <4>1
    <3>2. ASSUME NEW d \in Parents[c], x \in A[d]
          PROVE  y \in A[d]
      <4>1. d \in Commits /\ x \in Commits /\ y \in Commits
        BY <1>0, <2>1, <3>2
      <4>2. ASSUME NEW S \in SUBSET Commits, d \in S, Closed(S)
            PROVE  y \in S
        <5>1. x \in S
          BY <3>2, <4>1, <4>2
        <5> QED BY <4>2, <5>1
      <4> DEFINE W == {e \in Commits : \A S \in SUBSET Commits : d \in S /\ Closed(S) => e \in S}
      <4>3. A[d] = W
        BY <4>1
      <4>4. \A S \in SUBSET Commits : d \in S /\ Closed(S) => y \in S
        <5> HIDE DEF A, Closed
        <5> QED BY <4>2
      <4>5. y \in W
        <5> HIDE DEF A, Closed
        <5> QED BY <4>1, <4>4
      <4> HIDE DEF A, W
      <4> QED BY <4>3, <4>5
    <3>3. x = c \/ \E d \in Parents[c] : x \in A[d]
      <4> HIDE DEF A
      <4> QED OBVIOUS
    <3>4. ASSUME NEW d \in Parents[c], x \in A[d]
          PROVE  y \in B
      <4>1. y \in A[d]
        BY <3>2, <3>4
      <4> HIDE DEF A
      <4> QED BY <4>1
    <3> HIDE DEF A, B
    <3> QED BY <3>1, <3>3, <3>4
  <2>4. A[c] \subseteq B
    <3>1. Closed(B)
      BY <2>3
    <3>2. c \in B
      OBVIOUS
    <3> HIDE DEF B, Closed
    <3> QED BY <2>2, <3>1, <3>2
  <2>5. ASSUME NEW x \in B
        PROVE  x \in A[c]
    <3>1. x \in Commits
      BY <2>2
    <3>2. ASSUME NEW S \in SUBSET Commits, c \in S, Closed(S)
          PROVE  x \in S
      <4>1. CASE x = c
        BY <3>2, <4>1
      <4>2. ASSUME NEW d \in Parents[c], x \in A[d]
            PROVE  x \in S
        <5>1. d \in S /\ d \in Commits
          BY <1>0, <3>2
        <5> QED BY <3>2, <4>2, <5>1
      <4> QED BY <4>1, <4>2
    <3> QED BY <3>1, <3>2
  <2> QED BY <2>4, <2>5
<1>2. A = [c \in Commits |-> {c} \cup UNION {A[d] : d \in Parents[c]}]
  <2>1. A = [c \in Commits |-> A[c]]
    OBVIOUS
  <2> HIDE DEF A
  <2> QED BY <1>1, <2>1
<1> DEFINE Solves(f) == f = [c \in Commits |-> {c} \cup UNION {f[d] : d \in Parents[c]}]
<1>3. Ancestry = CHOOSE f : Solves(f)
  BY DEF Ancestry
<1>4. \E f : Solves(f)
  BY <1>2
<1> HIDE DEF A, Solves
<1>5. Solves(Ancestry)
  BY <1>3, <1>4
<1> QED BY <1>5 DEF Solves

\* The ancestors of a commit are commits, itself the last of them.
LEMMA AncestorsAre ==
    ASSUME NEW b \in Commits
    PROVE  b \in Ancestry[b] /\ \A d \in Ancestry[b] : d \in Commits /\ d <= b
<1> DEFINE T == {c \in Commits : ~\A d \in Ancestry[c] : d \in Commits /\ d <= c}
<1>0. Commits \subseteq Nat /\ \A c \in Commits : Parents[c] \in SUBSET Commits /\ \A d \in Parents[c] : d < c
  BY CommitsAssumption
<1>1. \A c \in Commits : Ancestry[c] = {c} \cup UNION {Ancestry[d] : d \in Parents[c]}
  BY AncestryEquation
<1>2. T = {}
  <2> SUFFICES ASSUME T # {} PROVE FALSE
    OBVIOUS
  <2>1. PICK c \in T : \A x \in T : c <= x
    <3>1. T \in SUBSET Nat
      BY <1>0
    <3> HIDE DEF T
    <3> QED BY <3>1, LeastExists
  <2>2. \A d \in Parents[c] : d \in Commits /\ d < c /\ d \in Nat /\ c \in Nat
    BY <1>0
  <2>3. \A d \in Parents[c] : d \notin T
    BY <2>1, <2>2
  <2>4. ASSUME NEW d \in Ancestry[c]
        PROVE  d \in Commits /\ d <= c
    <3>1. CASE d = c
      BY <1>0, <3>1
    <3>2. ASSUME NEW p \in Parents[c], d \in Ancestry[p]
          PROVE  d \in Commits /\ d <= c
      <4>1. d \in Commits /\ d <= p
        BY <2>2, <2>3, <3>2
      <4> QED BY <1>0, <2>2, <4>1
    <3> QED BY <1>1, <3>1, <3>2
  <2> QED BY <2>4
<1> QED BY <1>1, <1>2

\* The merge base of two commits that have a common one is a commit.
LEMMA MergeBaseIs ==
    ASSUME NEW b \in Commits, NEW h \in Commits, Common(b, h) # {}
    PROVE  MergeBase(b, h) \in Commits
<1> DEFINE S == Common(b, h)
           T == {d + 1 : d \in S}
<1>1. b \in Nat /\ \A d \in S : d \in Commits /\ d \in Nat /\ d <= b
  BY AncestorsAre, CommitsAssumption DEF Common
<1>2. T \in SUBSET (1 .. b + 1) /\ T # {} /\ b + 1 \in Nat
  BY <1>1
<1>3. PICK t \in T : \A u \in T : u <= t
  <2> HIDE DEF T
  <2> QED BY <1>2, GreatestExists
<1>4. PICK d \in S : \A e \in S : d >= e
  <2>1. PICK d \in S : t = d + 1
    OBVIOUS
  <2>2. \A e \in S : e + 1 <= d + 1
    BY <1>3, <2>1
  <2> HIDE DEF S
  <2> QED BY <1>1, <2>2
<1>5. Max(S) \in S
  BY <1>4 DEF Max
<1> QED BY <1>1, <1>5 DEF MergeBase

\* A file with the sides its status promises.
Filed(f) ==
    /\ [path |-> f.path, prev |-> f.prev, status |-> f.status] \in Entries
    /\ CASE f.status = "ADDED"   -> f.was = Absent /\ f.is \in Contents
         [] f.status = "REMOVED" -> f.was \in Contents /\ f.is = Absent
         [] OTHER                -> f.was \in Contents /\ f.is \in Contents

\* One side of the directories, as a walk has read it.
Side(a) == DOMAIN a \subseteq Paths /\ \A p \in DOMAIN a : a[p] \in Contents

\* The directories are lists of trees, and half a result is of the sort that
\* its source and phase give it.
Halved ==
    /\ disk \in [before : Seq(Trees), after : Seq(Trees)]
    /\ source = "git" /\ phase \in {"list", "read"} => half \subseteq Commits
    /\ source = "fs" /\ phase = "list" => half \subseteq SUBSET Paths
    /\ source = "fs" /\ phase = "read" => \A a \in half : Side(a)

Typed == TypeOK /\ Halved

LEMMA ReadableIs ==
    ASSUME NEW v \in Versions, Readable(v)
    PROVE  v \in Contents
BY DEF Versions, Readable

LEMMA TreeIs ==
    ASSUME NEW c \in Commits, NEW p \in Paths
    PROVE  Tree[c][p] \in Versions
BY CommitsAssumption DEF Trees

LEMMA FileIs ==
    ASSUME NEW p \in Paths, NEW status \in {"ADDED", "REMOVED", "MODIFIED"},
           NEW was \in Versions, NEW is \in Versions,
           status = "ADDED" => was = Absent, status = "REMOVED" => is = Absent,
           NEW f \in File(p, status, was, is)
    PROVE  Filed(f)
<1>1. f = [path |-> p, prev |-> {}, status |-> status, was |-> was, is |-> is] /\ Fetchable(f)
  BY DEF File
<1>2. f.path = p /\ f.prev = {} /\ f.status = status /\ f.was = was /\ f.is = is
  BY <1>1
<1>3. (status # "ADDED" => was \in Contents) /\ (status # "REMOVED" => is \in Contents)
  BY <1>1, <1>2, ReadableIs DEF Fetchable
<1> QED BY <1>2, <1>3 DEF Filed, Entries, Statuses

\* Git's files: a comparison has a merge base, and its trees hold versions.
LEMMA GitFileIs ==
    ASSUME NEW b \in Commits, NEW h \in Commits, Common(b, h) # {}, NEW p \in Paths,
           NEW f \in GitFile(b, h, p)
    PROVE  Filed(f)
<1>m. PICK m : m = MergeBase(b, h)
  OBVIOUS
<1>0. m \in Commits /\ Tree[m][p] \in Versions /\ Tree[h][p] \in Versions /\ Absent \in Versions
  BY <1>m, MergeBaseIs, TreeIs DEF Versions
<1>1. CASE p \in Differ(m, h) /\ Tree[m][p] = Absent
  <2>1. f \in File(p, "ADDED", Absent, Tree[h][p])
    BY <1>m, <1>1 DEF GitFile, PreviousRev, Differ
  <2> QED BY <1>0, <2>1, FileIs
<1>2. CASE p \in Differ(m, h) /\ Tree[h][p] = Absent
  <2>1. f \in File(p, "REMOVED", Tree[m][p], Absent)
    BY <1>m, <1>2 DEF GitFile, PreviousRev, Differ
  <2> QED BY <1>0, <2>1, FileIs
<1>3. CASE p \in Differ(m, h) /\ Absent \notin {Tree[m][p], Tree[h][p]}
  <2>1. f \in File(p, "MODIFIED", Tree[m][p], Tree[h][p])
    BY <1>m, <1>3 DEF GitFile, PreviousRev
  <2> QED BY <1>0, <2>1, FileIs
<1>4. CASE p \notin Differ(m, h)
  <2>1. f \in File(p, "MODIFIED", Tree[h][p], Tree[h][p])
    BY <1>m, <1>4 DEF GitFile
  <2> QED BY <1>0, <2>1, FileIs
<1> QED BY <1>1, <1>2, <1>3, <1>4

LEMMA GitHubFileIs ==
    ASSUME NEW e \in Entries, refs \in [base : Commits, head : Commits], NEW f \in GitHubFile(e)
    PROVE  Filed(f)
<1> DEFINE old == IF e.prev = {} THEN {e.path} ELSE e.prev
           was == IF e.status = "ADDED" THEN {Absent} ELSE {Tree[refs.base][p] : p \in old}
           is  == IF e.status = "REMOVED" THEN Absent ELSE Tree[refs.head][e.path]
<1>1. PICK w \in was : f = [path |-> e.path, prev |-> e.prev, status |-> e.status, was |-> w, is |-> is]
  BY DEF GitHubFile
<1>2. Fetchable(f)
  BY DEF GitHubFile
<1>3. e.path \in Paths /\ e.prev \in {{}} \cup {{p} : p \in Paths} /\ e.status \in Statuses
  BY DEF Entries
<1>4. old \subseteq Paths
  BY <1>3
<1>5. is \in Versions /\ w \in Versions
  <2>1. Absent \in Versions
    BY DEF Versions
  <2>2. refs.base \in Commits /\ refs.head \in Commits
    OBVIOUS
  <2>3. is \in Versions
    BY <1>3, <2>1, <2>2, TreeIs
  <2>4. \A p \in old : Tree[refs.base][p] \in Versions
    BY <1>4, <2>2, TreeIs
  <2> HIDE DEF old
  <2>5. w \in Versions
    BY <2>1, <2>4
  <2> QED BY <2>3, <2>5
<1>6. e.status = "ADDED" => w = Absent
  OBVIOUS
<1>7. e.status = "REMOVED" => is = Absent
  OBVIOUS
<1> HIDE DEF was, is, old
<1>8. f.path = e.path /\ f.prev = e.prev /\ f.status = e.status /\ f.was = w /\ f.is = is
  BY <1>1
<1>9. (e.status # "ADDED" => w \in Contents) /\ (e.status # "REMOVED" => is \in Contents)
  BY <1>2, <1>5, <1>8, ReadableIs DEF Fetchable
<1> QED BY <1>3, <1>6, <1>7, <1>8, <1>9 DEF Filed, Entries, Statuses

\* What is kept of a path that some root holds is what one of them holds.
LEMMA HeldIs ==
    ASSUME NEW roots \in Seq(Trees), NEW p \in Names(roots)
    PROVE  Held(roots, p) \in Contents
<1> DEFINE H == Holding(roots, p)
<1>1. H \in SUBSET (1 .. Len(roots)) /\ H # {} /\ Len(roots) \in Nat
  BY DEF Holding, Names
<1>2. PICK k \in H : \A j \in H : j <= k
  <2> HIDE DEF H
  <2> QED BY <1>1, GreatestExists
<1>3. Max(H) \in H
  <2>1. \A j \in H : k >= j
    BY <1>1, <1>2
  <2> HIDE DEF H
  <2> QED BY <2>1 DEF Max
<1>4. Max(H) \in 1 .. Len(roots) /\ roots[Max(H)][p] # Absent /\ p \in Paths
  <2>1. \A j \in H : roots[j][p] # Absent
    BY DEF Holding
  <2>2. p \in Paths
    BY DEF Names
  <2> HIDE DEF H
  <2> QED BY <1>1, <1>3, <2>1, <2>2
<1> HIDE DEF H
<1>5. PICK j \in 1 .. Len(roots) : j = Max(H)
  BY <1>4
<1>6. roots[j][p] \in Versions
  BY <1>4 DEF Trees
<1>7. Held(roots, p) = roots[j][p]
  BY <1>1, <1>5 DEF Held, H
<1> QED BY <1>4, <1>5, <1>6, <1>7 DEF Versions

LEMMA WalkIs ==
    ASSUME NEW roots \in Seq(Trees)
    PROVE  Side(Walk(roots))
BY HeldIs DEF Side, Walk, Names

LEMMA DiskFileIs ==
    ASSUME NEW before, NEW after, Side(before), Side(after), NEW p \in DOMAIN before \cup DOMAIN after
    PROVE  Filed(DiskFile(before, after, p))
<1> DEFINE f == DiskFile(before, after, p)
<1>1. p \in Paths
  BY DEF Side
<1>2. CASE p \notin DOMAIN before
  <2>1. f.path = p /\ f.prev = {} /\ f.status = "ADDED" /\ f.was = Absent /\ f.is = after[p]
    BY <1>2 DEF DiskFile, SideStatus
  <2> HIDE DEF f
  <2>2. Filed(f)
    BY <1>1, <1>2, <2>1 DEF Filed, Entries, Statuses, Side
  <2> QED BY <2>2 DEF f
<1>3. CASE p \in DOMAIN before /\ p \notin DOMAIN after
  <2>1. f.path = p /\ f.prev = {} /\ f.status = "REMOVED" /\ f.was = before[p] /\ f.is = Absent
    BY <1>3 DEF DiskFile, SideStatus
  <2> HIDE DEF f
  <2>2. Filed(f)
    BY <1>1, <1>3, <2>1 DEF Filed, Entries, Statuses, Side
  <2> QED BY <2>2 DEF f
<1>4. CASE p \in DOMAIN before /\ p \in DOMAIN after
  <2>1. f.path = p /\ f.prev = {} /\ f.status = "MODIFIED" /\ f.was = before[p] /\ f.is = after[p]
    BY <1>4 DEF DiskFile, SideStatus
  <2> HIDE DEF f
  <2>2. Filed(f)
    BY <1>1, <1>4, <2>1 DEF Filed, Entries, Statuses, Side
  <2> QED BY <2>2 DEF f
<1> QED BY <1>2, <1>3, <1>4

\* The types of what moves and of what was chosen.
WorldOK ==
    /\ source \in {"git", "github", "fs"} /\ refs \in [base : Commits, head : Commits]
    /\ moves \in 0 .. (IF source = "git" THEN MaxPushes ELSE MaxWrites)
    /\ seen.base \cup seen.head \subseteq Commits

ChoiceOK == listed \subseteq Entries /\ wanted \subseteq listed /\ enumerated \subseteq Paths

LEMMA TypeOKIs ==
    TypeOK <=> WorldOK /\ phase \in {"list", "read", "done", "failed"} /\ ChoiceOK /\ \A f \in files : Filed(f)
BY DEF TypeOK, WorldOK, ChoiceOK, Filed

LEMMA TypedThen ==
    ASSUME WorldOK', phase' \in {"list", "read", "done", "failed"}, ChoiceOK', \A f \in files' : Filed(f)
    PROVE  TypeOK'
BY DEF TypeOK, WorldOK, ChoiceOK, Filed

LEMMA WorldStays ==
    ASSUME Typed, UNCHANGED world
    PROVE  WorldOK' /\ disk' \in [before : Seq(Trees), after : Seq(Trees)]
BY DEF Typed, TypeOK, WorldOK, Halved, world

LEMMA TypedChoice ==
    ASSUME Typed, UNCHANGED world, NEW X, X \subseteq Entries, Choose(X)
    PROVE  Typed'
<1>1. WorldOK' /\ disk' \in [before : Seq(Trees), after : Seq(Trees)]
  BY WorldStays
<1>2. phase' = "read" /\ half' = {} /\ files' = files
  BY DEF Choose
<1>3. ChoiceOK'
  <2>1. \A e \in Entries : e.path \in Paths
    BY DEF Entries
  <2>2. PICK left : left \subseteq X /\ enumerated' = {e.path : e \in left} /\ wanted' \subseteq X /\ listed' = X
    BY DEF Choose
  <2>3. left \subseteq Entries
    BY <2>2
  <2> HIDE DEF Entries
  <2> QED BY <2>1, <2>2, <2>3 DEF ChoiceOK
<1>4. TypeOK'
  <2>1. \A f \in files : Filed(f)
    BY TypeOKIs DEF Typed
  <2>2. \A f \in files' : Filed(f)
    BY <1>2, <2>1
  <2> QED BY <1>1, <1>2, <1>3, <2>2, TypedThen
<1>5. Halved'
  BY <1>1, <1>2 DEF Halved
<1> QED BY <1>4, <1>5 DEF Typed

LEMMA TypedReturn ==
    ASSUME Typed, UNCHANGED world, NEW fs, \A f \in fs : Filed(f), Return(fs)
    PROVE  Typed'
<1>1. WorldOK' /\ disk' \in [before : Seq(Trees), after : Seq(Trees)]
  BY WorldStays
<1>2. phase' = "done" /\ half' = {} /\ files' = fs /\ UNCHANGED <<listed, enumerated, wanted>>
  BY DEF Return
<1>3. ChoiceOK'
  BY <1>2 DEF Typed, TypeOK, ChoiceOK
<1>4. TypeOK'
  <2>1. \A f \in files' : Filed(f)
    BY <1>2
  <2> QED BY <1>1, <1>2, <1>3, <2>1, TypedThen
<1>5. Halved'
  BY <1>1, <1>2 DEF Halved
<1> QED BY <1>4, <1>5 DEF Typed

LEMMA EntryIs ==
    ASSUME NEW p \in Paths, NEW status \in Statuses
    PROVE  Entry(p, status) \in Entries
BY DEF Entry, Entries

LEMMA ChangedPathsAre ==
    ASSUME NEW m, NEW h, NEW cs, Sound(m, h, cs)
    PROVE  ChangedPaths(cs) \subseteq Entries
<1> SUFFICES ASSUME NEW e \in ChangedPaths(cs) PROVE e \in Entries
  OBVIOUS
<1> USE DEF Sound, Statuses
<1>1. CASE \E c \in cs : e = Entry(c.dst, "ADDED")
  BY <1>1, EntryIs
<1>2. CASE \E c \in cs : e = Entry(c.src, "REMOVED")
  BY <1>2, EntryIs
<1>3. CASE \E c \in cs : e = Entry(c.dst, "MODIFIED")
  BY <1>3, EntryIs
<1> QED BY <1>1, <1>2, <1>3 DEF ChangedPaths

LEMMA ContextIs ==
    ASSUME NEW S \in SUBSET Paths
    PROVE  AsContext(S) \subseteq Entries
BY EntryIs DEF AsContext, Statuses

LEMMA CompareIs ==
    ASSUME NEW m, NEW h, NEW cs, Sound(m, h, cs)
    PROVE  CompareEntries(cs) \subseteq Entries
<1> SUFFICES ASSUME NEW e \in CompareEntries(cs) PROVE e \in Entries
  OBVIOUS
<1>1. CASE \E c \in cs : e = [Entry(c.dst, "RENAMED") EXCEPT !.prev = {c.src}]
  BY <1>1 DEF Entry, Entries, Statuses, Sound
<1>2. CASE e \in ChangedPaths({c \in cs : c.status # "R"})
  <2>1. Sound(m, h, {c \in cs : c.status # "R"})
    BY DEF Sound
  <2> QED BY <1>2, <2>1, ChangedPathsAre
<1> QED BY <1>1, <1>2 DEF CompareEntries

LEMMA SiblingsAre ==
    ASSUME NEW tree, NEW within \in SUBSET Paths, NEW known, NEW dirs
    PROVE  Siblings(tree, within, known, dirs) \in SUBSET Paths
BY DEF Siblings

LEMMA GitListTyped ==
    ASSUME Typed, GitList
    PROVE  Typed'
<1>h. PICK h : h = refs.head
  OBVIOUS
<1>1. UNCHANGED world
  BY DEF GitList
<1>2. PICK b \in half :
        \E rs \in Renames(MergeBase(b, h), h) :
           LET changed  == ChangedPaths(Changes(MergeBase(b, h), h, rs, Scope))
               siblings == GitSiblings(h, changed)
           IN  Choose(changed \cup AsContext(siblings))
  BY <1>h DEF GitList
<1>m. PICK m : m = MergeBase(b, h)
  OBVIOUS
<1>r. PICK rs \in Renames(m, h) :
         LET changed  == ChangedPaths(Changes(m, h, rs, Scope))
             siblings == GitSiblings(h, changed)
         IN  Choose(changed \cup AsContext(siblings))
  BY <1>2, <1>m
<1> DEFINE changed  == ChangedPaths(Changes(m, h, rs, Scope))
           siblings == GitSiblings(h, changed)
           X        == changed \cup AsContext(siblings)
<1>3. Choose(X)
  BY <1>r
<1>4. changed \subseteq Entries
  BY ChangesSound, ChangedPathsAre
<1>5. siblings \in SUBSET Paths
  BY PathsAssumption, SiblingsAre DEF GitSiblings
<1> HIDE DEF changed, siblings
<1>6. X \subseteq Entries
  BY <1>4, <1>5, ContextIs
<1> HIDE DEF X
<1>7. PICK Y : Y = X
  OBVIOUS
<1> QED BY <1>1, <1>3, <1>6, <1>7, TypedChoice

LEMMA GitHubListTyped ==
    ASSUME Typed, GitHubList
    PROVE  Typed'
<1>h. PICK h : h = refs.head
  OBVIOUS
<1>b. PICK b : b = refs.base
  OBVIOUS
<1>m. PICK m : m = MergeBase(b, h)
  OBVIOUS
<1>1. UNCHANGED world
  BY DEF GitHubList
<1>2. PICK rs \in Renames(m, h) :
         LET changed == CompareEntries(Changes(m, h, rs, Paths))
         IN  Choose(changed \cup AsContext(GitHubSiblings(b, changed)))
  BY <1>h, <1>b, <1>m DEF GitHubList
<1> DEFINE changed  == CompareEntries(Changes(m, h, rs, Paths))
           siblings == GitHubSiblings(b, changed)
           X        == changed \cup AsContext(siblings)
<1>3. Choose(X)
  BY <1>2
<1>4. changed \subseteq Entries
  BY ChangesSound, CompareIs
<1>5. siblings \in SUBSET Paths
  BY SiblingsAre DEF GitHubSiblings
<1> HIDE DEF changed, siblings
<1>6. X \subseteq Entries
  BY <1>4, <1>5, ContextIs
<1> HIDE DEF X
<1>7. PICK Y : Y = X
  OBVIOUS
<1> QED BY <1>1, <1>3, <1>6, <1>7, TypedChoice

LEMMA ListAfterTyped ==
    ASSUME Typed, ListAfter
    PROVE  Typed'
<1>1. source = "fs" /\ phase = "list" /\ UNCHANGED world
  BY DEF ListAfter
<1>2. CASE disk.before = << >>
  <2> DEFINE X == {Entry(p, "ADDED") : p \in Names(disk.after)}
  <2>1. Choose(X)
    BY <1>2 DEF ListAfter
  <2>2. X \subseteq Entries
    BY NamesArePaths, EntryIs DEF Statuses
  <2> HIDE DEF X
  <2>3. PICK Y : Y = X
    OBVIOUS
  <2> QED BY <1>1, <2>1, <2>2, <2>3, TypedChoice
<1>3. CASE disk.before # << >>
  <2>1. half' = {Names(disk.after)} /\ UNCHANGED <<source, phase, listed, enumerated, wanted, files>>
    BY <1>1, <1>3 DEF ListAfter, result, world
  <2>2. WorldOK' /\ disk' \in [before : Seq(Trees), after : Seq(Trees)]
    BY <1>1, WorldStays
  <2>3. Halved'
    BY <1>1, <2>1, <2>2, NamesArePaths DEF Halved
  <2>4. TypeOK'
    <3>1. ChoiceOK' /\ \A f \in files' : Filed(f)
      BY <2>1, TypeOKIs DEF Typed, ChoiceOK
    <3> QED BY <1>1, <2>1, <2>2, <3>1, TypedThen
  <2> QED BY <2>3, <2>4 DEF Typed
<1> QED BY <1>2, <1>3

LEMMA SideStatusIs ==
    ASSUME NEW before, NEW after, NEW p \in before \cup after
    PROVE  SideStatus(before, after, p) \in Statuses
<1>1. CASE p \notin before
  BY <1>1 DEF SideStatus, Statuses
<1>2. CASE p \in before /\ p \notin after
  BY <1>2 DEF SideStatus, Statuses
<1>3. CASE p \in before /\ p \in after
  BY <1>3 DEF SideStatus, Statuses
<1> QED BY <1>1, <1>2, <1>3

LEMMA ListBeforeTyped ==
    ASSUME Typed, ListBefore
    PROVE  Typed'
<1>1. source = "fs" /\ phase = "list" /\ UNCHANGED world
  BY DEF ListBefore
<1> DEFINE before == Names(disk.before)
<1>2. PICK after \in half :
        Choose({Entry(p, SideStatus(before, after, p)) : p \in before \cup after})
  BY DEF ListBefore
<1> DEFINE X == {Entry(p, SideStatus(before, after, p)) : p \in before \cup after}
<1>3. before \cup after \subseteq Paths
  BY <1>1, NamesArePaths DEF Typed, Halved
<1>4. X \subseteq Entries
  <2> HIDE DEF before
  <2> QED BY <1>3, EntryIs, SideStatusIs
<1> HIDE DEF X
<1>5. PICK Y : Y = X
  OBVIOUS
<1> QED BY <1>1, <1>2, <1>4, <1>5, TypedChoice DEF X

LEMMA GitReadTyped ==
    ASSUME Typed, GitRead
    PROVE  Typed'
<1>h. PICK h : h = refs.head
  OBVIOUS
<1>1. UNCHANGED world
  BY DEF GitRead
<1>2. PICK b \in half : Common(b, h) # {} /\ Return(UNION {GitFile(b, h, e.path) : e \in wanted})
  BY <1>h DEF GitRead
<1>3. b \in Commits /\ h \in Commits
  BY <1>h, <1>2 DEF GitRead, Typed, TypeOK, Halved
<1>4. \A e \in wanted : e.path \in Paths
  BY DEF Typed, TypeOK, Entries
<1> DEFINE fs == UNION {GitFile(b, h, e.path) : e \in wanted}
<1>5. \A f \in fs : Filed(f)
  <2> SUFFICES ASSUME NEW e \in wanted, NEW f \in GitFile(b, h, e.path)
               PROVE  Filed(f)
    OBVIOUS
  <2>1. PICK p \in Paths : p = e.path
    BY <1>4
  <2> QED BY <1>2, <1>3, <2>1, GitFileIs
<1> HIDE DEF fs
<1>6. PICK Y : Y = fs
  OBVIOUS
<1> QED BY <1>1, <1>2, <1>5, <1>6, TypedReturn DEF fs

LEMMA GitHubReadTyped ==
    ASSUME Typed, GitHubRead
    PROVE  Typed'
<1> DEFINE fs == UNION {GitHubFile(e) : e \in wanted}
<1>1. UNCHANGED world /\ Return(fs)
  BY DEF GitHubRead
<1>2. refs \in [base : Commits, head : Commits] /\ wanted \subseteq Entries
  BY DEF Typed, TypeOK
<1>3. \A f \in fs : Filed(f)
  BY <1>2, GitHubFileIs
<1> HIDE DEF fs
<1>4. PICK Y : Y = fs
  OBVIOUS
<1> QED BY <1>1, <1>3, <1>4, TypedReturn

LEMMA ReadAfterTyped ==
    ASSUME Typed, ReadAfter
    PROVE  Typed'
<1>1. source = "fs" /\ phase = "read" /\ UNCHANGED world
  BY DEF ReadAfter
<1>s. Side(Walk(disk.after))
  <2>1. PICK roots \in Seq(Trees) : roots = disk.after
    BY DEF Typed, Halved
  <2>2. Side(Walk(roots))
    BY WalkIs
  <2> QED BY <2>1, <2>2
<1> DEFINE after == Walk(disk.after)
<1>2. CASE disk.before = << >>
  <2> DEFINE fs == {DiskFile(<< >>, after, p) : p \in DOMAIN after}
  <2>1. Return(fs)
    BY <1>2 DEF ReadAfter
  <2>2. Side(<< >>)
    BY DEF Side
  <2> HIDE DEF after
  <2>3. \A f \in fs : Filed(f)
    BY <1>s, <2>2, DiskFileIs DEF after
  <2> HIDE DEF fs
  <2>4. PICK Y : Y = fs
    OBVIOUS
  <2> QED BY <1>1, <2>1, <2>3, <2>4, TypedReturn
<1>3. CASE disk.before # << >>
  <2>1. half' = {after} /\ UNCHANGED <<source, phase, listed, enumerated, wanted, files>>
    BY <1>1, <1>3 DEF ReadAfter, result, world
  <2>2. WorldOK' /\ disk' \in [before : Seq(Trees), after : Seq(Trees)]
    BY <1>1, WorldStays
  <2>3. PICK a : a = after
    OBVIOUS
  <2>4. half' = {a} /\ Side(a)
    BY <1>s, <2>1, <2>3
  <2>5. Halved'
    <3> HIDE DEF after
    <3> QED BY <1>1, <2>1, <2>2, <2>4 DEF Halved, Side
  <2>6. TypeOK'
    <3>1. ChoiceOK' /\ \A f \in files' : Filed(f)
      BY <2>1, TypeOKIs DEF Typed, ChoiceOK
    <3> QED BY <1>1, <2>1, <2>2, <3>1, TypedThen
  <2> QED BY <2>5, <2>6 DEF Typed
<1> QED BY <1>2, <1>3

LEMMA ReadBeforeTyped ==
    ASSUME Typed, ReadBefore
    PROVE  Typed'
<1>1. source = "fs" /\ phase = "read" /\ UNCHANGED world
  BY DEF ReadBefore
<1>2. PICK before : before = Walk(disk.before)
  OBVIOUS
<1>3. Side(before)
  <2>1. PICK roots \in Seq(Trees) : roots = disk.before
    BY DEF Typed, Halved
  <2>2. Side(Walk(roots))
    BY WalkIs
  <2> QED BY <1>2, <2>1, <2>2
<1>4. PICK after \in half : Return({DiskFile(before, after, p) : p \in DOMAIN before \cup DOMAIN after})
  BY <1>2 DEF ReadBefore
<1>5. Side(after)
  BY <1>1, <1>4 DEF Typed, Halved
<1> DEFINE fs == {DiskFile(before, after, p) : p \in DOMAIN before \cup DOMAIN after}
<1>6. \A f \in fs : Filed(f)
  BY <1>3, <1>5, DiskFileIs
<1> HIDE DEF fs
<1> QED BY <1>1, <1>4, <1>6, TypedReturn DEF fs

LEMMA InitTyped ==
    ASSUME Init
    PROVE  Typed
<1> USE DEF Init
<1>1. refs \in Calls /\ source \in {"git", "github", "fs"}
  <2>1. CASE source \in {"git", "github"} /\ refs \in Calls
    BY <2>1
  <2>2. CASE source = "fs" /\ refs = (CHOOSE c \in Calls : TRUE)
    BY <2>2, CommitsAssumption
  <2> QED BY <2>1, <2>2
<1>2. refs \in [base : Commits, head : Commits]
  BY <1>1, CommitsAssumption
<1>3. WorldOK
  BY <1>1, <1>2, LimitsAssumption DEF WorldOK
<1>4. ChoiceOK /\ \A f \in files : Filed(f)
  BY DEF ChoiceOK
<1>5. disk \in [before : Seq(Trees), after : Seq(Trees)]
  <2>1. CASE disk = [before |-> << >>, after |-> << >>]
    BY <2>1
  <2>2. CASE disk \in Disks
    BY <2>2, PathsAssumption
  <2> QED BY <2>1, <2>2
<1>6. Halved
  BY <1>5 DEF Halved
<1> QED BY <1>3, <1>4, <1>6, TypeOKIs DEF Typed

LEMMA ResolveBaseTyped ==
    ASSUME Typed, ResolveBase
    PROVE  Typed'
<1>1. /\ source = "git" /\ half' = {refs.base}
      /\ UNCHANGED <<source, refs, disk, moves, seen, phase, listed, enumerated, wanted, files>>
  BY DEF ResolveBase, world, result
<1>2. WorldOK' /\ disk' \in [before : Seq(Trees), after : Seq(Trees)]
  BY <1>1, WorldStays DEF world
<1>3. ChoiceOK' /\ phase' \in {"list", "read", "done", "failed"} /\ \A f \in files' : Filed(f)
  BY <1>1, TypeOKIs DEF Typed, ChoiceOK
<1>4. Halved'
  BY <1>1, <1>2 DEF Halved, Typed, TypeOK
<1> QED BY <1>2, <1>3, <1>4, TypedThen DEF Typed

LEMMA FailTyped ==
    ASSUME Typed, Fail
    PROVE  Typed'
<1>1. phase' = "failed" /\ UNCHANGED <<source, refs, disk, moves, seen, half, listed, enumerated, wanted, files>>
  BY DEF Fail, world, result
<1>2. WorldOK' /\ disk' \in [before : Seq(Trees), after : Seq(Trees)]
  BY <1>1, WorldStays DEF world
<1>3. ChoiceOK' /\ \A f \in files' : Filed(f)
  BY <1>1, TypeOKIs DEF Typed, ChoiceOK
<1>4. Halved'
  BY <1>1, <1>2 DEF Halved
<1> QED BY <1>1, <1>2, <1>3, <1>4, TypedThen DEF Typed

LEMMA PushTyped ==
    ASSUME Typed, Push, seen = [base |-> seen.base, head |-> seen.head]
    PROVE  Typed'
<1>1. /\ source = "git" /\ moves < MaxPushes /\ moves' = moves + 1
      /\ UNCHANGED <<source, disk, phase, half, listed, enumerated, wanted, files>>
  BY DEF Push, result
<1>2. PICK r \in {"base", "head"}, c \in Pushes :
        refs' = [refs EXCEPT ![r] = c] /\ seen' = [seen EXCEPT ![r] = @ \cup {c}]
  BY DEF Push
<1>3. c \in Commits
  BY CommitsAssumption
<1>4. refs \in [base : Commits, head : Commits] /\ seen.base \cup seen.head \subseteq Commits /\ moves \in 0 .. MaxPushes
  BY <1>1 DEF Typed, TypeOK
<1>5. refs' \in [base : Commits, head : Commits]
  BY <1>2, <1>3, <1>4
<1>6. seen'.base \cup seen'.head \subseteq Commits
  <2>1. CASE r = "base"
    BY <1>2, <1>3, <1>4, <2>1
  <2>2. CASE r = "head"
    BY <1>2, <1>3, <1>4, <2>2
  <2> QED BY <2>1, <2>2
<1>7. moves' \in 0 .. MaxPushes
  BY <1>1, <1>4, LimitsAssumption
<1>8. WorldOK'
  BY <1>1, <1>5, <1>6, <1>7 DEF WorldOK
<1>9. ChoiceOK' /\ phase' \in {"list", "read", "done", "failed"} /\ \A f \in files' : Filed(f)
  BY <1>1, TypeOKIs DEF Typed, ChoiceOK
<1>10. Halved'
  BY <1>1 DEF Typed, Halved
<1> QED BY <1>8, <1>9, <1>10, TypedThen DEF Typed

LEMMA WriteTyped ==
    ASSUME Typed, Write
    PROVE  Typed'
<1>1. /\ source = "fs" /\ moves < MaxWrites /\ moves' = moves + 1
      /\ UNCHANGED <<source, refs, seen, phase, half, listed, enumerated, wanted, files>>
  BY DEF Write, result
<1>2. PICK side \in {"before", "after"} :
        \E k \in DOMAIN disk[side], p \in Paths, v \in Versions : disk' = [disk EXCEPT ![side][k][p] = v]
  BY DEF Write
<1>3. PICK k \in DOMAIN disk[side], p \in Paths, v \in Versions : disk' = [disk EXCEPT ![side][k][p] = v]
  BY <1>2
<1>4. disk \in [before : Seq(Trees), after : Seq(Trees)] /\ moves \in 0 .. MaxWrites
  BY <1>1 DEF Typed, TypeOK, Halved
<1>5. disk' \in [before : Seq(Trees), after : Seq(Trees)]
  <2>1. PICK roots \in Seq(Trees) : roots = disk[side]
    BY <1>4
  <2>2. PICK tree \in Trees : tree = roots[k]
    BY <1>3, <2>1
  <2>3. [tree EXCEPT ![p] = v] \in Trees
    BY DEF Trees
  <2>4. [roots EXCEPT ![k] = [tree EXCEPT ![p] = v]] \in Seq(Trees)
    BY <1>3, <2>1, <2>3
  <2>5. disk' = [disk EXCEPT ![side] = [roots EXCEPT ![k] = [tree EXCEPT ![p] = v]]]
    BY <1>3, <2>1, <2>2
  <2> QED BY <1>4, <2>4, <2>5
<1>6. moves' \in 0 .. MaxWrites
  BY <1>1, <1>4, LimitsAssumption
<1>7. WorldOK'
  BY <1>1, <1>6 DEF WorldOK, Typed, TypeOK
<1>8. ChoiceOK' /\ phase' \in {"list", "read", "done", "failed"} /\ \A f \in files' : Filed(f)
  BY <1>1, TypeOKIs DEF Typed, ChoiceOK
<1>9. Halved'
  BY <1>1, <1>5 DEF Typed, Halved, Side
<1> QED BY <1>7, <1>8, <1>9, TypedThen DEF Typed

LEMMA TypedPreserved ==
    ASSUME IInv, Typed, Next \/ UNCHANGED vars
    PROVE  Typed'
<1>1. CASE Git
  BY <1>1, ResolveBaseTyped, GitListTyped, GitReadTyped DEF Git
<1>2. CASE GitHub
  BY <1>2, GitHubListTyped, GitHubReadTyped DEF GitHub
<1>3. CASE FS
  BY <1>3, ListAfterTyped, ListBeforeTyped, ReadAfterTyped, ReadBeforeTyped DEF FS
<1>4. CASE Fail
  BY <1>4, FailTyped
<1>5. CASE Push \/ Write
  BY <1>5, PushTyped, WriteTyped DEF IInv, Moving
<1>6. CASE UNCHANGED vars
  <2>1. UNCHANGED <<source, refs, disk, moves, seen, phase, half, listed, enumerated, wanted, files>>
    BY <1>6 DEF vars
  <2>2. WorldOK' /\ disk' \in [before : Seq(Trees), after : Seq(Trees)]
    BY <2>1, WorldStays DEF world
  <2>3. ChoiceOK' /\ phase' \in {"list", "read", "done", "failed"} /\ \A f \in files' : Filed(f)
    BY <2>1, TypeOKIs DEF Typed, ChoiceOK
  <2>4. Halved'
    BY <2>1 DEF Typed, Halved, Side
  <2> QED BY <2>2, <2>3, <2>4, TypedThen DEF Typed
<1> QED BY <1>1, <1>2, <1>3, <1>4, <1>5, <1>6 DEF Next

LEMMA AlwaysTyped == ChangesetSpec => []Typed
<1>1. ChangesetInit => Typed
  BY InitTyped DEF ChangesetInit
<1>2. IInv /\ Typed /\ [ChangesetNext]_<<vars, downs>> => Typed'
  BY TypedPreserved, ValidationReads
<1> QED BY <1>1, <1>2, AlwaysInv, PTL DEF ChangesetSpec

-----------------------------------------------------------------------------
(* Losses. *)

\* Kinds that are graded as a loss, or not at all.
LosingKinds ==
    {"DROP_DATABASE", "TRUNCATE", "DELETE", "UPDATE", "DROP_TABLE", "DROP_SCHEMA", "DROP_SEQUENCE",
     "DROP_EXTENSION", "UPSERT", "ALTER_SEQUENCE_RESTART", "DROP_COLUMN", "UNRECOGNIZED"}

Grave(r) ==
    /\ r.kinds \cap LosingKinds # {} => r.verdict.rev = "IRREVERSIBLE"
    /\ r.kinds \cap {"DELETE", "UPDATE"} = {}

LEMMA RowsAreGrave == \A r \in Rows : Grave(r)
<1>1. \A r \in TakingRows : Grave(r)
  BY DEF TakingRows, Grave, LosingKinds, Row, V
<1>2. \A r \in CreatingRows : Grave(r)
  BY DEF CreatingRows, Grave, LosingKinds, Row, V
<1>3. \A r \in ToolRows : Grave(r)
  BY DEF ToolRows, Grave, LosingKinds, Row, V
<1>4. \A r \in HandwrittenRows : Grave(r)
  BY DEF HandwrittenRows, Grave, LosingKinds, Row, V
<1>5. \A r \in OtherRows : Grave(r)
  BY DEF OtherRows, Grave, LosingKinds, Row, V
<1> QED BY <1>1, <1>2, <1>3, <1>4, <1>5 DEF Rows

LEMMA LossesAreSevere ==
    ASSUME NEW s, s.kind \in LosingKinds \/ "CASCADE" \in s.flags
    PROVE  Classify(s, NoType).rev \in Severe
<1> DEFINE v == Classify(s, NoType)
<1>1. CASE "CASCADE" \in s.flags
  <2>1. v = V(5, "IRREVERSIBLE", "EXCLUSIVE", "none")
    BY <1>1 DEF Classify, Has
  <2> QED BY <2>1 DEF V, Severe
<1>2. CASE "CASCADE" \notin s.flags /\ s.kind \in {"DELETE", "UPDATE"}
  <2>1. v \in {V(9, "IRREVERSIBLE", "SHORT", "none"), V(8, "IRREVERSIBLE", "EXCLUSIVE", "none")}
    <3>1. ~\E r \in Rows : s.kind \in r.kinds
      BY <1>2, RowsAreGrave DEF Grave
    <3> QED BY <1>2, <3>1 DEF Classify, Has
  <2> QED BY <2>1 DEF V, Severe
<1>3. CASE /\ "CASCADE" \notin s.flags /\ s.kind \in LosingKinds \ {"DELETE", "UPDATE"}
           /\ \E r \in Rows : s.kind \in r.kinds
  <2> DEFINE row == CHOOSE r \in Rows : s.kind \in r.kinds
  <2>1. v = row.verdict
    BY <1>3 DEF Classify, Has, LosingKinds
  <2>2. row \in Rows /\ s.kind \in row.kinds
    BY <1>3
  <2> HIDE DEF row, v
  <2>3. v.rev = "IRREVERSIBLE"
    BY <1>3, <2>1, <2>2, RowsAreGrave DEF Grave
  <2> QED BY <2>3 DEF v, Severe
<1>4. CASE /\ "CASCADE" \notin s.flags /\ s.kind \in LosingKinds \ {"DELETE", "UPDATE"}
           /\ ~\E r \in Rows : s.kind \in r.kinds
  <2>1. v = V(27, "UNKNOWN", "EXCLUSIVE", "none")
    BY <1>4 DEF Classify, Has, LosingKinds, Unknown
  <2> QED BY <2>1 DEF V, Severe
<1> QED BY <1>1, <1>2, <1>3, <1>4

LEMMA LiftIs ==
    ASSUME NEW t, NEW kind
    PROVE  /\ Lift(t, kind).kind = kind /\ Lift(t, kind).rel = t.rel
           /\ Lift(t, kind).obj = ObjectOf(t) /\ Lift(t, kind).flags = FlagsOf(t)
BY DEF Lift, Plain

LEMMA StatementsHave ==
    ASSUME NEW script, NEW k \in DOMAIN script.trees, NEW j \in DOMAIN Convert(script.trees[k])
    PROVE  Convert(script.trees[k])[j] \in StatementsOf(script)
BY DEF StatementsOf

\* A tree is graded as each of its statements is.
LEMMA GradedHas ==
    ASSUME NEW t, NEW j \in DOMAIN Convert(t), Classify(Convert(t)[j], NoType).rev \in Severe
    PROVE  Graded(t) \cap Severe # {}
<1>1. PICK script : script = Script(FALSE, TRUE, <<t>>)
  OBVIOUS
<1>2. 1 \in DOMAIN script.trees /\ script.trees[1] = t
  BY <1>1 DEF Script
<1>3. Convert(t)[j] \in StatementsOf(script)
  BY <1>2, StatementsHave
<1> QED BY <1>1, <1>3 DEF Graded

LEMMA OneStatement ==
    ASSUME NEW t, NEW s, Convert(t) = <<s>>, s.kind \in LosingKinds \/ "CASCADE" \in s.flags
    PROVE  Graded(t) \cap Severe # {}
<1>1. DOMAIN <<s>> = {1} /\ <<s>>[1] = s
  OBVIOUS
<1> QED BY <1>1, GradedHas, LossesAreSevere

\* Nodes with one kind.
LEMMA OneKindIs ==
    ASSUME NEW t, t.node \in {"DropdbStmt", "TruncateStmt", "DeleteStmt", "UpdateStmt"}
    PROVE  KindOf(t) \in {"DROP_DATABASE", "TRUNCATE", "DELETE", "UPDATE"}
<1>1. t.node \notin DOMAIN TwoKinds
  BY DEF TwoKinds
<1>2. KindOf(t) = KindIn(OneKind, t.node)
  BY <1>1 DEF KindOf
<1>3. /\ OneKind["DropdbStmt"] = "DROP_DATABASE" /\ OneKind["TruncateStmt"] = "TRUNCATE"
      /\ OneKind["DeleteStmt"] = "DELETE" /\ OneKind["UpdateStmt"] = "UPDATE"
  BY DEF OneKind
<1>4. {"DropdbStmt", "TruncateStmt", "DeleteStmt", "UpdateStmt"} \subseteq DOMAIN OneKind
  BY DEF OneKind
<1> QED BY <1>2, <1>3, <1>4 DEF KindIn

\* An INSERT that may overwrite, and a sequence that starts again.
LEMMA TwoKindsAre ==
    ASSUME NEW t
    PROVE  /\ t.node = "InsertStmt" /\ "DO UPDATE" \in t.flags => KindOf(t) = "UPSERT"
           /\ t.node = "AlterSeqStmt" /\ "RESTART" \in t.flags => KindOf(t) = "ALTER_SEQUENCE_RESTART"
<1>1. /\ {"InsertStmt", "AlterSeqStmt"} \subseteq DOMAIN TwoKinds
      /\ TwoKinds["InsertStmt"] = <<"DO UPDATE", "UPSERT", "INSERT">>
      /\ TwoKinds["AlterSeqStmt"] = <<"RESTART", "ALTER_SEQUENCE_RESTART", "UNRECOGNIZED">>
  BY DEF TwoKinds
<1>2. ASSUME t.node \in {"InsertStmt", "AlterSeqStmt"}
      PROVE  TwoKinds[t.node][1] \in t.flags => KindOf(t) = TwoKinds[t.node][2]
  <2>1. t.node \in DOMAIN TwoKinds /\ t.node \notin {"DropStmt", "RenameStmt", "VacuumStmt", "CreateTableAsStmt"}
    BY <1>1, <1>2
  <2> QED BY <2>1 DEF KindOf
<1>3. /\ TwoKinds["InsertStmt"][1] = "DO UPDATE" /\ TwoKinds["InsertStmt"][2] = "UPSERT"
      /\ TwoKinds["AlterSeqStmt"][1] = "RESTART" /\ TwoKinds["AlterSeqStmt"][2] = "ALTER_SEQUENCE_RESTART"
  <2>1. PICK x : x = TwoKinds["InsertStmt"]
    OBVIOUS
  <2>2. x[1] = "DO UPDATE" /\ x[2] = "UPSERT"
    <3>1. x = <<"DO UPDATE", "UPSERT", "INSERT">>
      BY <1>1, <2>1
    <3> QED BY <3>1
  <2>3. PICK y : y = TwoKinds["AlterSeqStmt"]
    OBVIOUS
  <2>4. y[1] = "RESTART" /\ y[2] = "ALTER_SEQUENCE_RESTART"
    <3>1. y = <<"RESTART", "ALTER_SEQUENCE_RESTART", "UNRECOGNIZED">>
      BY <1>1, <2>3
    <3> QED BY <3>1
  <2> QED BY <2>1, <2>2, <2>3, <2>4
<1> QED BY <1>2, <1>3

LEMMA LosingKind ==
    ASSUME NEW t, Loses(t), t.node # "AlterTableStmt"
    PROVE  KindOf(t) \in LosingKinds \/ "CASCADE" \in FlagsOf(t)
<1>1. CASE t.node \in {"DropdbStmt", "TruncateStmt", "DeleteStmt", "UpdateStmt"}
  BY <1>1, OneKindIs DEF LosingKinds
<1>2. CASE t.node = "DropStmt" /\ t.what \in {"TABLE", "SCHEMA", "SEQUENCE", "EXTENSION"}
  BY <1>2 DEF KindOf, KindIn, DropKinds, TwoKinds, LosingKinds
<1>3. CASE t.node = "DropStmt" /\ "CASCADE" \in t.flags
  BY <1>3 DEF FlagsOf
<1>4. CASE t.node = "InsertStmt" /\ "DO UPDATE" \in t.flags
  BY <1>4, TwoKindsAre DEF LosingKinds
<1>5. CASE t.node = "AlterSeqStmt" /\ "RESTART" \in t.flags
  BY <1>5, TwoKindsAre DEF LosingKinds
<1> QED BY <1>1, <1>2, <1>3, <1>4, <1>5 DEF Loses

LEMMA DropColumnKind ==
    ASSUME NEW c, c.what = "DropColumn"
    PROVE  CommandKind(c) = "DROP_COLUMN"
BY DEF CommandKind, KindIn, CommandKinds

\* Kinds a SELECT may be lifted to.
SelectKinds ==
    {"DROP_DATABASE", "TRUNCATE", "DELETE", "UPDATE", "ALTER_SEQUENCE_RESTART", "UNRECOGNIZED"}

\* Whatever a SELECT is lifted to, it is a loss or has no name.
LEMMA SelectKind ==
    ASSUME NEW t, DOMAIN t.with \subseteq Nat
    PROVE  Select(t).kind \in SelectKinds
<1> DEFINE held == {k \in DOMAIN t.with : t.with[k].node \in Modifying}
<1>1. CASE held # {}
  <2>1. PICK k \in held : \A j \in held : k <= j
    <3>1. held \in SUBSET Nat
      OBVIOUS
    <3> HIDE DEF held
    <3> QED BY <1>1, <3>1, LeastExists
  <2> DEFINE first == CHOOSE i \in held : \A j \in held : i <= j
             cte   == t.with[first]
  <2>2. first \in held
    <3> HIDE DEF held
    <3> QED BY <2>1
  <2>3. cte.node \in Modifying
    BY <2>2
  <2>4. Select(t) = Lift(cte, IF cte.node = "InsertStmt" THEN "UNRECOGNIZED" ELSE KindOf(cte))
    BY <1>1 DEF Select
  <2> HIDE DEF cte
  <2>5. CASE cte.node = "InsertStmt"
    BY <2>4, <2>5, LiftIs DEF SelectKinds
  <2>6. CASE cte.node \in {"DeleteStmt", "UpdateStmt"}
    <3>1. KindOf(cte) \in {"DROP_DATABASE", "TRUNCATE", "DELETE", "UPDATE"}
      BY <2>6, OneKindIs
    <3> QED BY <2>4, <2>6, <3>1, LiftIs DEF SelectKinds
  <2> QED BY <2>3, <2>5, <2>6 DEF Modifying
<1>2. CASE held = {} /\ "setval" \in t.calls
  <2>1. Select(t) = Lift(t, "ALTER_SEQUENCE_RESTART")
    BY <1>2 DEF Select
  <2> QED BY <2>1, LiftIs DEF SelectKinds
<1>3. CASE held = {} /\ "setval" \notin t.calls
  <2>1. Select(t) = Lift(t, "UNRECOGNIZED")
    BY <1>3 DEF Select
  <2> QED BY <2>1, LiftIs DEF SelectKinds
<1> QED BY <1>1, <1>2, <1>3

LEMMA LossGraded ==
    ASSUME NEW t, Grammatical(t), Destroys(t),
           t.node \notin {"InsertStmt", "CreateTableAsStmt", "AlterTableStmt"} \/ Loses(t)
    PROVE  Graded(t) \cap Severe # {}
<1>1. CASE t.node = "AlterTableStmt"
  <2>1. PICK k \in DOMAIN t.cmds : t.cmds[k].what = "DropColumn"
    BY <1>1 DEF Loses
  <2>2. t.cmds # << >>
    BY <2>1
  <2>3. /\ DOMAIN Convert(t) = DOMAIN t.cmds
        /\ Convert(t)[k] = [Plain(CommandKind(t.cmds[k]), t.rel, t.cmds[k].name) EXCEPT
                               !.new = t.cmds[k].index, !.type = t.cmds[k].type, !.flags = CommandFlags(t.cmds[k])]
    BY <1>1, <2>2 DEF Convert, AlterTable
  <2>4. Convert(t)[k].kind = CommandKind(t.cmds[k])
    BY <2>3 DEF Plain
  <2>5. Convert(t)[k].kind \in LosingKinds
    BY <2>1, <2>4, DropColumnKind DEF LosingKinds
  <2> QED BY <2>3, <2>5, GradedHas, LossesAreSevere
<1>2. CASE t.node = "SelectStmt"
  <2>1. Convert(t) = <<Select(t)>>
    BY <1>2 DEF Convert
  <2> QED BY <2>1, SelectKind, OneStatement DEF Grammatical, SelectKinds, LosingKinds
<1>3. CASE t.node \notin {"AlterTableStmt", "SelectStmt"}
  <2>1. Convert(t) = <<Lift(t, KindOf(t))>>
    BY <1>3 DEF Convert
  <2>2. CASE Loses(t)
    BY <1>3, <2>1, <2>2, LosingKind, LiftIs, OneStatement
  <2>3. CASE ~Loses(t)
    <3>1. t.with # << >> \/ t.calls # {}
      BY <2>3 DEF Destroys
    <3>2. t.node \notin Modifying \cup {"CreateTableAsStmt"}
      BY <2>3 DEF Modifying, Loses
    <3>3. KindOf(t) = "UNRECOGNIZED"
      BY <3>1, <3>2 DEF Grammatical
    <3> QED BY <2>1, <3>3, LiftIs, OneStatement DEF LosingKinds
  <2> QED BY <2>2, <2>3
<1> QED BY <1>1, <1>2, <1>3

-----------------------------------------------------------------------------
(* Symmetry. *)

\* Kinds whose statements remove what a migration is said to add.
RemovingKinds == {"DROP_TABLE", "DROP_VIEW", "DROP_INDEX", "DROP_COLUMN"}

LEMMA OneKinds ==
    ASSUME NEW node \in DOMAIN OneKind
    PROVE  OneKind[node] \notin RemovingKinds
BY DEF OneKind, RemovingKinds

LEMMA TwoKindsNot ==
    ASSUME NEW node \in DOMAIN TwoKinds
    PROVE  TwoKinds[node][2] \notin RemovingKinds /\ TwoKinds[node][3] \notin RemovingKinds
<1> DEFINE Tame(x) == x[2] \notin RemovingKinds /\ x[3] \notin RemovingKinds
<1>1. /\ Tame(<<"OR REPLACE", "REPLACE_VIEW", "CREATE_VIEW">>)
      /\ Tame(<<"OR REPLACE", "REPLACE_FUNCTION", "CREATE_FUNCTION">>)
      /\ Tame(<<"IS GRANT", "GRANT", "REVOKE">>)
      /\ Tame(<<"CONCURRENTLY", "REFRESH_MATERIALIZED_VIEW_CONCURRENTLY", "REFRESH_MATERIALIZED_VIEW">>)
      /\ Tame(<<"DO UPDATE", "UPSERT", "INSERT">>)
      /\ Tame(<<"RESTART", "ALTER_SEQUENCE_RESTART", "UNRECOGNIZED">>)
      /\ Tame(<<"RENAME VALUE", "UNRECOGNIZED", "ADD_ENUM_VALUE">>)
  BY DEF RemovingKinds
<1>2. node \in {"ViewStmt", "CreateFunctionStmt", "GrantStmt", "RefreshMatViewStmt", "InsertStmt",
               "AlterSeqStmt", "AlterEnumStmt"}
  BY DEF TwoKinds
<1>3. /\ TwoKinds["ViewStmt"] = <<"OR REPLACE", "REPLACE_VIEW", "CREATE_VIEW">>
      /\ TwoKinds["CreateFunctionStmt"] = <<"OR REPLACE", "REPLACE_FUNCTION", "CREATE_FUNCTION">>
      /\ TwoKinds["GrantStmt"] = <<"IS GRANT", "GRANT", "REVOKE">>
      /\ TwoKinds["RefreshMatViewStmt"] =
            <<"CONCURRENTLY", "REFRESH_MATERIALIZED_VIEW_CONCURRENTLY", "REFRESH_MATERIALIZED_VIEW">>
      /\ TwoKinds["InsertStmt"] = <<"DO UPDATE", "UPSERT", "INSERT">>
      /\ TwoKinds["AlterSeqStmt"] = <<"RESTART", "ALTER_SEQUENCE_RESTART", "UNRECOGNIZED">>
      /\ TwoKinds["AlterEnumStmt"] = <<"RENAME VALUE", "UNRECOGNIZED", "ADD_ENUM_VALUE">>
  BY DEF TwoKinds
<1> HIDE DEF Tame
<1>4. Tame(TwoKinds[node])
  BY <1>1, <1>2, <1>3, Zenon
<1> QED BY <1>4 DEF Tame

LEMMA RenameKindsNot ==
    ASSUME NEW what \in DOMAIN RenameKinds
    PROVE  RenameKinds[what] \notin RemovingKinds
BY DEF RenameKinds, RemovingKinds

LEMMA CommandKindsAre ==
    ASSUME NEW what \in DOMAIN CommandKinds
    PROVE  CommandKinds[what] \in RemovingKinds => what = "DropColumn" /\ CommandKinds[what] = "DROP_COLUMN"
BY DEF CommandKinds, RemovingKinds

LEMMA DropKindsAre ==
    ASSUME NEW what \in DOMAIN DropKinds
    PROVE  /\ DropKinds[what] = "DROP_TABLE" => what = "TABLE"
           /\ DropKinds[what] = "DROP_VIEW" => what = "VIEW"
           /\ DropKinds[what] = "DROP_INDEX" => what = "INDEX"
           /\ DropKinds[what] # "DROP_COLUMN"
BY DEF DropKinds

LEMMA UnrecognizedRemovesNot == "UNRECOGNIZED" \notin RemovingKinds
BY DEF RemovingKinds

\* Only a DROP is lifted to one of those.
LEMMA RemovingIs ==
    ASSUME NEW t, KindOf(t) \in RemovingKinds
    PROVE  /\ t.node = "DropStmt"
           /\ KindOf(t) = "DROP_TABLE" => t.what = "TABLE"
           /\ KindOf(t) = "DROP_VIEW" => t.what = "VIEW"
           /\ KindOf(t) = "DROP_INDEX" => t.what = "INDEX"
           /\ KindOf(t) # "DROP_COLUMN"
<1>1. CASE t.node = "DropStmt"
  <2>1. KindOf(t) = KindIn(DropKinds, t.what)
    BY <1>1 DEF KindOf, TwoKinds
  <2>2. t.what \in DOMAIN DropKinds /\ KindOf(t) = DropKinds[t.what]
    BY <2>1, UnrecognizedRemovesNot DEF KindIn
  <2> QED BY <1>1, <2>2, DropKindsAre
<1>2. CASE t.node = "RenameStmt"
  <2>1. KindOf(t) = KindIn(RenameKinds, t.what)
    BY <1>2 DEF KindOf, TwoKinds
  <2> QED BY <2>1, UnrecognizedRemovesNot, RenameKindsNot DEF KindIn
<1>3. CASE t.node = "VacuumStmt"
  <2>1. KindOf(t) = VacuumKind(t)
    BY <1>3 DEF KindOf, TwoKinds
  <2> QED BY <2>1 DEF VacuumKind, RemovingKinds
<1>4. CASE t.node = "CreateTableAsStmt"
  <2>1. KindOf(t) = CreateAsKind(t)
    BY <1>4 DEF KindOf, TwoKinds
  <2> QED BY <2>1 DEF CreateAsKind, RemovingKinds
<1>5. CASE t.node \in DOMAIN TwoKinds
  <2>1. t.node \notin {"DropStmt", "RenameStmt", "VacuumStmt", "CreateTableAsStmt"}
    BY <1>5 DEF TwoKinds
  <2>2. KindOf(t) \in {TwoKinds[t.node][2], TwoKinds[t.node][3]}
    BY <1>5, <2>1 DEF KindOf
  <2> QED BY <1>5, <2>2, TwoKindsNot
<1>6. CASE t.node \notin {"DropStmt", "RenameStmt", "VacuumStmt", "CreateTableAsStmt"} \cup DOMAIN TwoKinds
  <2>1. KindOf(t) = KindIn(OneKind, t.node)
    BY <1>6 DEF KindOf
  <2> QED BY <2>1, UnrecognizedRemovesNot, OneKinds DEF KindIn
<1> QED BY <1>1, <1>2, <1>3, <1>4, <1>5, <1>6

LEMMA CommandRemoves ==
    ASSUME NEW c, CommandKind(c) \in RemovingKinds
    PROVE  c.what = "DropColumn" /\ CommandKind(c) = "DROP_COLUMN"
<1>1. CASE c.what = "ColumnDefault"
  <2>1. CommandKind(c) \in {"SET_DEFAULT", "DROP_DEFAULT"}
    BY <1>1 DEF CommandKind
  <2> QED BY <2>1 DEF RemovingKinds
<1>2. CASE c.what = "AddConstraint"
  <2>1. CommandKind(c) \in {"ADD_CONSTRAINT_USING_INDEX", "ADD_CONSTRAINT"}
    BY <1>2 DEF CommandKind
  <2> QED BY <2>1 DEF RemovingKinds
<1>3. CASE c.what \notin {"ColumnDefault", "AddConstraint"}
  <2>1. CommandKind(c) = KindIn(CommandKinds, c.what)
    BY <1>3 DEF CommandKind
  <2> QED BY <2>1, UnrecognizedRemovesNot, CommandKindsAre DEF KindIn
<1> QED BY <1>1, <1>2, <1>3

LEMMA DroppedIs ==
    ASSUME NEW kind \in DOMAIN Dropped
    PROVE  /\ Dropped[kind] = "table" => kind = "DROP_TABLE"
           /\ Dropped[kind] = "view" => kind = "DROP_VIEW"
           /\ Dropped[kind] = "index" => kind = "DROP_INDEX"
           /\ Dropped[kind] # "column"
BY DEF Dropped

LEMMA DroppedOfIs ==
    ASSUME NEW kind \in DOMAIN DroppedOf
    PROVE  /\ DroppedOf[kind] \notin {"table", "view", "index"}
           /\ DroppedOf[kind] = "column" => kind = "DROP_COLUMN"
BY DEF DroppedOf

\* What a migration is said to add.
Added(x) == x[1] \in {"table", "view", "index", "column"}

LEMMA DropsAre ==
    ASSUME NEW s, NEW x \in Drops(s), Added(x)
    PROVE  \/ s.kind = "DROP_TABLE" /\ x = <<"table", s.obj>>
           \/ s.kind = "DROP_VIEW" /\ x = <<"view", s.obj>>
           \/ s.kind = "DROP_INDEX" /\ x = <<"index", s.obj>>
           \/ s.kind = "DROP_COLUMN" /\ x = <<"column", s.rel, s.obj>>
<1>1. CASE s.kind \in DOMAIN Dropped
  <2>1. PICK a, b : a = Dropped[s.kind] /\ b = s.obj
    OBVIOUS
  <2>d. s.kind \notin DOMAIN DroppedOf
    BY <1>1 DEF Dropped, DroppedOf
  <2>2. x = <<a, b>>
    BY <1>1, <2>d, <2>1 DEF Drops
  <2>3. x[1] = a
    BY <2>2
  <2> HIDE DEF Dropped
  <2>4. \/ a = "table" /\ s.kind = "DROP_TABLE"
        \/ a = "view" /\ s.kind = "DROP_VIEW"
        \/ a = "index" /\ s.kind = "DROP_INDEX"
    BY <1>1, <2>1, <2>3, DroppedIs DEF Added
  <2> QED BY <2>1, <2>2, <2>4
<1>2. CASE s.kind \notin DOMAIN Dropped /\ s.kind \in DOMAIN DroppedOf
  <2>1. PICK a, b, c : a = DroppedOf[s.kind] /\ b = s.rel /\ c = s.obj
    OBVIOUS
  <2>2. x = <<a, b, c>>
    BY <1>2, <2>1 DEF Drops
  <2>3. x[1] = a
    BY <2>2
  <2>4. a = "column" /\ s.kind = "DROP_COLUMN"
    BY <1>2, <2>1, <2>3, DroppedOfIs DEF Added
  <2> QED BY <2>1, <2>2, <2>4
<1>3. CASE s.kind \notin DOMAIN Dropped \cup DOMAIN DroppedOf
  <2>1. Drops(s) = {}
    BY <1>3 DEF Drops
  <2> QED BY <2>1
<1> QED BY <1>1, <1>2, <1>3

\* What a statement is taken to drop, its tree removes.
LEMMA DropsUnmade ==
    ASSUME NEW t, Grammatical(t), NEW j \in DOMAIN Convert(t), NEW x \in Drops(Convert(t)[j]), Added(x)
    PROVE  x \in Unmakes(t)
<1> DEFINE s == Convert(t)[j]
<1>0. \/ s.kind = "DROP_TABLE" /\ x = <<"table", s.obj>>
      \/ s.kind = "DROP_VIEW" /\ x = <<"view", s.obj>>
      \/ s.kind = "DROP_INDEX" /\ x = <<"index", s.obj>>
      \/ s.kind = "DROP_COLUMN" /\ x = <<"column", s.rel, s.obj>>
  BY DropsAre
<1>k. s.kind \in RemovingKinds
  BY <1>0 DEF RemovingKinds
<1>1. CASE t.node = "AlterTableStmt" /\ t.cmds = << >>
  <2>1. Convert(t) = <<Lift(t, "UNRECOGNIZED")>>
    BY <1>1 DEF Convert, AlterTable
  <2>2. s = Lift(t, "UNRECOGNIZED")
    BY <2>1
  <2> QED BY <1>k, <2>2, LiftIs, UnrecognizedRemovesNot
<1>2. CASE t.node = "AlterTableStmt" /\ t.cmds # << >>
  <2>1. /\ j \in DOMAIN t.cmds
        /\ s = [Plain(CommandKind(t.cmds[j]), t.rel, t.cmds[j].name) EXCEPT
                   !.new = t.cmds[j].index, !.type = t.cmds[j].type, !.flags = CommandFlags(t.cmds[j])]
    BY <1>2 DEF Convert, AlterTable
  <2> HIDE DEF s
  <2>2. s.kind = CommandKind(t.cmds[j]) /\ s.rel = t.rel /\ s.obj = t.cmds[j].name
    BY <2>1 DEF Plain
  <2>3. t.cmds[j].what = "DropColumn" /\ s.kind = "DROP_COLUMN"
    BY <1>k, <2>2, CommandRemoves
  <2>4. x = <<"column", t.rel, t.cmds[j].name>>
    BY <1>0, <2>2, <2>3
  <2>5. Unmakes(t) = {<<"column", t.rel, t.cmds[k].name>> : k \in {i \in DOMAIN t.cmds : t.cmds[i].what = "DropColumn"}}
    BY <1>2 DEF Unmakes
  <2> QED BY <2>1, <2>3, <2>4, <2>5
<1>3. CASE t.node = "SelectStmt"
  <2>1. Convert(t) = <<Select(t)>>
    BY <1>3 DEF Convert
  <2>2. s = Select(t)
    BY <2>1
  <2> HIDE DEF s
  <2> QED BY <1>k, <2>2, SelectKind DEF Grammatical, SelectKinds, RemovingKinds
<1>4. CASE t.node \notin {"AlterTableStmt", "SelectStmt"}
  <2>1. Convert(t) = <<Lift(t, KindOf(t))>>
    BY <1>4 DEF Convert
  <2>2. s = Lift(t, KindOf(t))
    BY <2>1
  <2> HIDE DEF s
  <2>3. s.kind = KindOf(t) /\ s.obj = ObjectOf(t)
    BY <2>2, LiftIs
  <2>4. /\ t.node = "DropStmt"
        /\ s.kind = "DROP_TABLE" => t.what = "TABLE"
        /\ s.kind = "DROP_VIEW" => t.what = "VIEW"
        /\ s.kind = "DROP_INDEX" => t.what = "INDEX"
        /\ s.kind # "DROP_COLUMN"
    BY <1>k, <2>3, RemovingIs
  <2>5. t.what \in {"TABLE", "VIEW", "INDEX"}
    BY <1>0, <2>4
  <2>6. 1 \in DOMAIN t.names /\ s.obj = t.names[1]
    <3>1. 1 \in DOMAIN t.names /\ t.names # << >>
      BY <2>4 DEF Grammatical
    <3>2. ObjectOf(t) = FirstOf(t.names)
      BY <2>4, <2>5 DEF ObjectOf
    <3> QED BY <2>3, <3>1, <3>2 DEF FirstOf
  <2>7. CASE s.kind = "DROP_TABLE"
    <3>1. Unmakes(t) = {<<"table", t.names[k]>> : k \in DOMAIN t.names}
      BY <2>4, <2>7 DEF Unmakes
    <3> QED BY <1>0, <2>6, <2>7, <3>1
  <2>8. CASE s.kind = "DROP_VIEW"
    <3>1. Unmakes(t) = {<<"view", t.names[k]>> : k \in DOMAIN t.names}
      BY <2>4, <2>8 DEF Unmakes
    <3> QED BY <1>0, <2>6, <2>8, <3>1
  <2>9. CASE s.kind = "DROP_INDEX"
    <3>1. Unmakes(t) = {<<"index", t.names[k]>> : k \in DOMAIN t.names}
      BY <2>4, <2>9 DEF Unmakes
    <3> QED BY <1>0, <2>6, <2>9, <3>1
  <2> QED BY <1>0, <2>4, <2>7, <2>8, <2>9
<1> QED BY <1>1, <1>2, <1>3, <1>4

LEMMA CreatingKinds ==
    /\ OneKind["CreateStmt"] = "CREATE_TABLE" /\ OneKind["IndexStmt"] = "CREATE_INDEX"
    /\ {"CreateStmt", "IndexStmt"} \subseteq DOMAIN OneKind
    /\ {"CreateStmt", "IndexStmt"} \cap DOMAIN TwoKinds = {}
BY DEF OneKind, TwoKinds

LEMMA ViewKind ==
    ASSUME NEW t, t.node = "ViewStmt", "OR REPLACE" \notin t.flags
    PROVE  KindOf(t) = "CREATE_VIEW"
<1>1. "ViewStmt" \in DOMAIN TwoKinds /\ TwoKinds["ViewStmt"] = <<"OR REPLACE", "REPLACE_VIEW", "CREATE_VIEW">>
  BY DEF TwoKinds
<1>2. TwoKinds[t.node][1] \notin t.flags => KindOf(t) = TwoKinds[t.node][3]
  <2>1. t.node \in DOMAIN TwoKinds /\ t.node \notin {"DropStmt", "RenameStmt", "VacuumStmt", "CreateTableAsStmt"}
    BY <1>1
  <2> QED BY <2>1 DEF KindOf
<1>3. TwoKinds["ViewStmt"][1] = "OR REPLACE" /\ TwoKinds["ViewStmt"][3] = "CREATE_VIEW"
  <2>1. PICK x : x = TwoKinds["ViewStmt"]
    OBVIOUS
  <2>2. x = <<"OR REPLACE", "REPLACE_VIEW", "CREATE_VIEW">>
    BY <1>1, <2>1
  <2>3. x[1] = "OR REPLACE" /\ x[3] = "CREATE_VIEW"
    BY <2>2
  <2> QED BY <2>1, <2>3
<1> QED BY <1>2, <1>3

LEMMA CreatesAre ==
    ASSUME NEW s
    PROVE  /\ s.kind = "CREATE_TABLE" => Creates(s) = {<<"table", s.rel>>}
           /\ s.kind = "CREATE_VIEW" => Creates(s) = {<<"view", s.rel>>}
           /\ s.kind = "CREATE_INDEX" => Creates(s) = {<<"index", s.obj>>}
           /\ s.kind = "ADD_COLUMN" => Creates(s) = {<<"column", s.rel, s.obj>>}
<1>1. /\ {"CREATE_TABLE", "CREATE_VIEW"} \subseteq DOMAIN OfRelation
      /\ OfRelation["CREATE_TABLE"] = "table" /\ OfRelation["CREATE_VIEW"] = "view"
      /\ {"CREATE_TABLE", "CREATE_VIEW"} \cap (DOMAIN OfObject \cup DOMAIN OfBoth) = {}
  BY DEF OfRelation, OfObject, OfBoth
<1>2. /\ "CREATE_INDEX" \in DOMAIN OfObject /\ OfObject["CREATE_INDEX"] = "index"
      /\ "CREATE_INDEX" \notin DOMAIN OfRelation \cup DOMAIN OfBoth
  BY DEF OfRelation, OfObject, OfBoth
<1>3. /\ "ADD_COLUMN" \in DOMAIN OfBoth /\ OfBoth["ADD_COLUMN"] = "column"
      /\ "ADD_COLUMN" \notin DOMAIN OfRelation \cup DOMAIN OfObject
  BY DEF OfRelation, OfObject, OfBoth
<1>4. CASE s.kind = "CREATE_TABLE" \/ s.kind = "CREATE_VIEW"
  BY <1>1, <1>4 DEF Creates
<1>5. CASE s.kind = "CREATE_INDEX"
  BY <1>2, <1>5 DEF Creates
<1>6. CASE s.kind = "ADD_COLUMN"
  BY <1>3, <1>6 DEF Creates
<1> QED BY <1>4, <1>5, <1>6

\* What a tree brings into existence, one of its statements is taken to create.
LEMMA MakesCreated ==
    ASSUME NEW t, NEW x \in Makes(t)
    PROVE  Added(x) /\ \E j \in DOMAIN Convert(t) : x \in Creates(Convert(t)[j])
<1>1. CASE t.node = "AlterTableStmt"
  <2>1. Makes(t) = {<<"column", t.rel, t.cmds[k].name>> : k \in {i \in DOMAIN t.cmds : t.cmds[i].what = "AddColumn"}}
    BY <1>1 DEF Makes
  <2>2. PICK k \in DOMAIN t.cmds : t.cmds[k].what = "AddColumn" /\ x = <<"column", t.rel, t.cmds[k].name>>
    BY <2>1
  <2>3. t.cmds # << >>
    BY <2>2
  <2>4. /\ DOMAIN Convert(t) = DOMAIN t.cmds
        /\ Convert(t)[k] = [Plain(CommandKind(t.cmds[k]), t.rel, t.cmds[k].name) EXCEPT
                               !.new = t.cmds[k].index, !.type = t.cmds[k].type, !.flags = CommandFlags(t.cmds[k])]
    BY <1>1, <2>3 DEF Convert, AlterTable
  <2>5. CommandKind(t.cmds[k]) = "ADD_COLUMN"
    BY <2>2 DEF CommandKind, KindIn, CommandKinds
  <2>6. PICK s : s = Convert(t)[k]
    OBVIOUS
  <2>7. s.kind = "ADD_COLUMN" /\ s.rel = t.rel /\ s.obj = t.cmds[k].name
    BY <2>4, <2>5, <2>6 DEF Plain
  <2>8. x \in Creates(s)
    BY <2>2, <2>7, CreatesAre
  <2>9. Added(x)
    <3>1. PICK a, b : a = t.rel /\ b = t.cmds[k].name
      OBVIOUS
    <3>2. x = <<"column", a, b>>
      BY <2>2, <3>1
    <3> QED BY <3>2 DEF Added
  <2> QED BY <2>4, <2>6, <2>8, <2>9
<1>2. CASE t.node \in {"CreateStmt", "ViewStmt", "IndexStmt"}
  <2>1. Convert(t) = <<Lift(t, KindOf(t))>>
    BY <1>2 DEF Convert
  <2>2. PICK s : s = Lift(t, KindOf(t))
    OBVIOUS
  <2>3. 1 \in DOMAIN Convert(t) /\ Convert(t)[1] = s
    BY <2>1, <2>2
  <2>4. s.kind = KindOf(t) /\ s.rel = t.rel /\ s.obj = ObjectOf(t)
    BY <2>2, LiftIs
  <2>5. CASE t.node = "CreateStmt"
    <3>1. KindOf(t) = KindIn(OneKind, t.node)
      BY <2>5, CreatingKinds DEF KindOf
    <3>2. s.kind = "CREATE_TABLE"
      BY <2>4, <2>5, <3>1, CreatingKinds DEF KindIn
    <3>3. PICK a : a = t.rel
      OBVIOUS
    <3>4. x = <<"table", a>>
      BY <2>5, <3>3 DEF Makes
    <3>5. x \in Creates(s)
      BY <2>4, <3>2, <3>3, <3>4, CreatesAre
    <3>6. Added(x)
      BY <3>4 DEF Added
    <3> QED BY <2>3, <3>5, <3>6
  <2>6. CASE t.node = "IndexStmt"
    <3>1. KindOf(t) = KindIn(OneKind, t.node)
      BY <2>6, CreatingKinds DEF KindOf
    <3>2. s.kind = "CREATE_INDEX"
      BY <2>4, <2>6, <3>1, CreatingKinds DEF KindIn
    <3>3. PICK a : a = FirstOf(t.names)
      OBVIOUS
    <3>4. x = <<"index", a>>
      BY <2>6, <3>3 DEF Makes
    <3>5. s.obj = a
      BY <2>4, <2>6, <3>3 DEF ObjectOf
    <3>6. x \in Creates(s)
      BY <3>2, <3>4, <3>5, CreatesAre
    <3>7. Added(x)
      BY <3>4 DEF Added
    <3> QED BY <2>3, <3>6, <3>7
  <2>7. CASE t.node = "ViewStmt"
    <3>1. "OR REPLACE" \notin t.flags
      <4>1. CASE "OR REPLACE" \in t.flags
        <5>1. Makes(t) = {}
          BY <2>7, <4>1 DEF Makes
        <5> QED BY <5>1
      <4> QED BY <4>1
    <3>2. s.kind = "CREATE_VIEW"
      BY <2>4, <2>7, <3>1, ViewKind
    <3>3. PICK a : a = t.rel
      OBVIOUS
    <3>4. x = <<"view", a>>
      BY <2>7, <3>1, <3>3 DEF Makes
    <3>5. x \in Creates(s)
      BY <2>4, <3>2, <3>3, <3>4, CreatesAre
    <3>6. Added(x)
      BY <3>4 DEF Added
    <3> QED BY <2>3, <3>5, <3>6
  <2> QED BY <1>2, <2>5, <2>6, <2>7
<1>3. CASE t.node \notin {"AlterTableStmt", "CreateStmt", "ViewStmt", "IndexStmt"}
  <2>1. Makes(t) = {}
    BY <1>3 DEF Makes
  <2> QED BY <2>1
<1> QED BY <1>1, <1>2, <1>3

\* A down that is symmetric to an up removes what the up adds.
LEMMA SymmetryTakesBack ==
    ASSUME NEW u, NEW d, Symmetric(u, d), \A k \in DOMAIN d.trees : Grammatical(d.trees[k])
    PROVE  Effects(Makes, u) \subseteq Effects(Unmakes, d)
<1> SUFFICES ASSUME NEW k \in DOMAIN u.trees, NEW x \in Makes(u.trees[k])
             PROVE  x \in Effects(Unmakes, d)
  BY DEF Effects
<1>1. PICK j \in DOMAIN Convert(u.trees[k]) : x \in Creates(Convert(u.trees[k])[j])
  BY MakesCreated
<1>2. Added(x)
  BY MakesCreated
<1>3. Convert(u.trees[k])[j] \in StatementsOf(u)
  BY StatementsHave
<1>4. x \in UNION {Drops(r) : r \in StatementsOf(d)}
  BY <1>1, <1>3 DEF Symmetric
<1>5. PICK r \in StatementsOf(d) : x \in Drops(r)
  BY <1>4
<1>6. PICK l \in DOMAIN d.trees : \E i \in DOMAIN Convert(d.trees[l]) : r = Convert(d.trees[l])[i]
  BY DEF StatementsOf
<1>7. PICK t : t = d.trees[l]
  OBVIOUS
<1>8. PICK i \in DOMAIN Convert(t) : r = Convert(t)[i]
  BY <1>6, <1>7
<1>9. Grammatical(t)
  BY <1>7
<1>10. x \in Unmakes(t)
  BY <1>2, <1>5, <1>8, <1>9, DropsUnmade
<1> QED BY <1>7, <1>10 DEF Effects

-----------------------------------------------------------------------------
(* What was found out, and stays so. *)

\* What is known of a content is one of the things it may say.
Meaningful == \A v \in DOMAIN meaning : v \in Contents /\ meaning[v] \in Says[v]

\* What a status that reassures rests on: a down and an up that were read.
Vouched(s) ==
    \E f, g \in files :
        /\ f.path \in s.down /\ IsDown(f.path) /\ AtHead(f)
        /\ g.path \in s.up
        /\ InDirectory(f.path) = InDirectory(g.path) => Dir[f.path] = Dir[g.path]
        /\ f.is \in DOMAIN meaning /\ meaning[f.is].parses /\ ~meaning[f.is].blank
        /\ g.is # Absent => g.is \in DOMAIN meaning
        /\ s.symmetric /\ g.is # Absent => Effects(Makes, meaning[g.is]) \subseteq Effects(Unmakes, meaning[f.is])

\* The files on the up side of a migration have been answered for.
AnsweredFor(id) == \E s \in statuses : s.up = {f.path : f \in UpOf(id)}

Ups == {f \in Migrations : IsUp(f.path)}

Reassured ==
    /\ step = "waiting" => todo = {} /\ statuses = {}
    /\ step \in {"validating", "validated"} =>
          /\ phase = "done"
          /\ \A f \in Ups : Identity(f.path) \in todo \/ AnsweredFor(Identity(f.path))
    /\ step = "validated" => todo = {}
    /\ step \in {"waiting", "validating", "validated", "failed"}
    /\ \A s \in statuses : s.parses => Vouched(s)
    /\ statuses # {} => phase = "done"

\* After the call has returned, nothing of it changes.
LEMMA ReturnedStays ==
    ASSUME phase = "done", Next
    PROVE  FALSE
<1>1. ~Git
  BY DEF Git, ResolveBase, GitList, GitRead
<1>2. ~GitHub
  BY DEF GitHub, GitHubList, GitHubRead
<1>3. ~FS
  BY DEF FS, ListAfter, ListBefore, ReadAfter, ReadBefore
<1>4. ~Fail /\ ~Push /\ ~Write
  BY DEF Fail, Push, Write
<1> QED BY <1>1, <1>2, <1>3, <1>4 DEF Next

\* What is known of contents grows.
Grown ==
    /\ DOMAIN meaning \subseteq DOMAIN meaning'
    /\ \A v \in DOMAIN meaning : meaning'[v] = meaning[v]

LEMMA VouchedStays ==
    ASSUME UNCHANGED vars, Grown, NEW s, Vouched(s)
    PROVE  Vouched(s)'
<1>0. UNCHANGED <<source, seen, files>>
  BY DEF vars
<1>1. PICK f \in files, g \in files :
        /\ f.path \in s.down /\ IsDown(f.path) /\ AtHead(f)
        /\ g.path \in s.up
        /\ InDirectory(f.path) = InDirectory(g.path) => Dir[f.path] = Dir[g.path]
        /\ f.is \in DOMAIN meaning /\ meaning[f.is].parses /\ ~meaning[f.is].blank
        /\ g.is # Absent => g.is \in DOMAIN meaning
        /\ s.symmetric /\ g.is # Absent => Effects(Makes, meaning[g.is]) \subseteq Effects(Unmakes, meaning[f.is])
  BY DEF Vouched
<1>2. AtHead(f)'
  BY <1>0, <1>1 DEF AtHead
<1>3. f.is \in DOMAIN meaning' /\ meaning'[f.is] = meaning[f.is]
  BY <1>1 DEF Grown
<1>4. g.is # Absent => g.is \in DOMAIN meaning' /\ meaning'[g.is] = meaning[g.is]
  BY <1>1 DEF Grown
<1>5. f \in files' /\ g \in files'
  BY <1>0
<1> QED BY <1>1, <1>2, <1>3, <1>4, <1>5 DEF Vouched

LEMMA UpOfStays ==
    ASSUME UNCHANGED vars, NEW id
    PROVE  UpOf(id)' = UpOf(id) /\ Ups' = Ups
BY DEF vars, UpOf, Ups, Migrations, Last

\* Reading one content of a file tells one thing about it, once.
LEMMA KnowingGrows ==
    ASSUME NEW known, \A v \in DOMAIN known : v \in Contents /\ known[v] \in Says[v],
           NEW w \in Versions, NEW script,
           w # Absent => script \in (IF w \in DOMAIN known THEN {known[w]} ELSE Says[w]),
           NEW k, k = Knowing(w, script, known)
    PROVE  /\ \A v \in DOMAIN k : v \in Contents /\ k[v] \in Says[v]
           /\ DOMAIN known \subseteq DOMAIN k /\ \A v \in DOMAIN known : k[v] = known[v]
           /\ w # Absent => w \in DOMAIN k /\ k[w] = script
           /\ DOMAIN k \subseteq DOMAIN known \cup {w}
<1>1. CASE w = Absent
  <2>1. k = known
    BY <1>1 DEF Knowing
  <2> QED BY <1>1, <2>1
<1>2. CASE w # Absent
  <2>1. w \in Contents
    BY <1>2 DEF Versions
  <2>2. /\ DOMAIN k = DOMAIN known \cup {w} /\ k[w] = script
        /\ \A v \in DOMAIN known : v # w => k[v] = known[v]
    BY <1>2 DEF Knowing
  <2>3. CASE w \in DOMAIN known
    BY <1>2, <2>1, <2>2, <2>3
  <2>4. CASE w \notin DOMAIN known
    BY <1>2, <2>1, <2>2, <2>4
  <2> QED BY <2>3, <2>4
<1> QED BY <1>1, <1>2

LEMMA ReadingsAre ==
    ASSUME NEW v
    PROVE  /\ v = Absent => Readings(v) = {NoText}
           /\ v # Absent => Readings(v) = IF v \in DOMAIN meaning THEN {meaning[v]} ELSE Says[v]
BY DEF Readings

LEMMA VersionsOfFiles ==
    ASSUME Typed, NEW f \in files
    PROVE  f.is \in Versions /\ f.path \in Paths /\ (f.is # Absent => f.status # "REMOVED")
<1>1. Filed(f)
  BY TypeOKIs DEF Typed
<1> QED BY <1>1 DEF Filed, Entries, Statuses, Versions

LEMMA LastOf ==
    ASSUME NEW fs
    PROVE  Last(fs) \subseteq fs
BY DEF Last

\* A file that is there is as the commit under review, or the directory after
\* it, has it.
LEMMA ThereIsAtHead ==
    ASSUME IInv, Typed, phase = "done", NEW f \in files, f.is # Absent
    PROVE  AtHead(f)
<1>1. f.status # "REMOVED"
  BY VersionsOfFiles
<1>2. CASE source \in {"git", "github"}
  <2>1. \E h \in seen.head : \A g \in files : g.is = Tree[h][g.path]
    BY <1>2 DEF IInv, OneTransition, Returned
  <2> QED BY <1>1, <2>1 DEF AtHead
<1>3. CASE source = "fs"
  BY <1>1, <1>3 DEF AtHead
<1> QED BY <1>2, <1>3 DEF Typed, TypeOK

\* In either layout, a migration and its down have one place.
LEMMA OnePlace ==
    ASSUME NEW p \in Paths, NEW q \in Paths, Identity(p) = Identity(q), InDirectory(p) = InDirectory(q)
    PROVE  Dir[p] = Dir[q]
<1>1. CASE InDirectory(p)
  <2>1. Above[Dir[p]] = Above[Dir[q]] /\ Base[Dir[p]] = Base[Dir[q]]
    BY <1>1 DEF Identity
  <2> QED BY <2>1, NamesAssumption
<1>2. CASE ~InDirectory(p)
  BY <1>2 DEF Identity
<1> QED BY <1>1, <1>2

\* A status says what is found out of the pair that it names.
LEMMA StatusIs ==
    ASSUME NEW id, NEW down, NEW exists, NEW parses, NEW symmetric,
           NEW s, s = Status(id, down, exists, parses, symmetric)
    PROVE  /\ s.up = {f.path : f \in UpOf(id)} /\ s.down = {f.path : f \in down}
           /\ s.parses = parses /\ s.symmetric = symmetric
BY DEF Status

\* One more status, of a migration that was still to be looked at.
LEMMA OneMore ==
    ASSUME Reassured, UNCHANGED vars, Grown, step = "validating", NEW id \in todo, NEW s,
           s.up = {f.path : f \in UpOf(id)}, s.parses => Vouched(s)',
           step' = step, todo' = todo \ {id}, statuses' = statuses \cup {s}
    PROVE  Reassured'
<1>1. phase' = "done"
  BY DEF Reassured, vars
<1>2. ASSUME NEW f \in Ups'
      PROVE  Identity(f.path) \in todo' \/ AnsweredFor(Identity(f.path))'
  <2>1. f \in Ups
    BY UpOfStays
  <2>2. PICK i : i = Identity(f.path)
    OBVIOUS
  <2>3. UpOf(i)' = UpOf(i)
    BY UpOfStays
  <2>4. CASE i = id
    <3>1. s \in statuses' /\ s.up = {g.path : g \in UpOf(i)}
      BY <2>4
    <3>2. AnsweredFor(i)'
      BY <2>3, <3>1 DEF AnsweredFor
    <3> QED BY <2>2, <3>2
  <2>5. CASE i # id /\ i \in todo
    BY <2>2, <2>5
  <2>6. CASE i \notin todo
    <3>1. AnsweredFor(i)
      BY <2>1, <2>2, <2>6 DEF Reassured
    <3>2. AnsweredFor(i)'
      BY <2>3, <3>1 DEF AnsweredFor
    <3> QED BY <2>2, <3>2
  <2> QED BY <2>4, <2>5, <2>6
<1>3. ASSUME NEW r \in statuses', r.parses
      PROVE  Vouched(r)'
  <2>1. CASE r = s
    BY <1>3, <2>1
  <2>2. CASE r \in statuses
    BY <1>3, <2>2, VouchedStays DEF Reassured
  <2> QED BY <2>1, <2>2
<1>4. step' = "validating"
  OBVIOUS
<1> QED BY <1>1, <1>2, <1>3, <1>4 DEF Reassured

LEMMA MissingKeeps ==
    ASSUME Meaningful, Reassured, NEW id \in todo, Missing(id)
    PROVE  Meaningful' /\ Reassured'
<1>1. /\ UNCHANGED vars /\ step = "validating" /\ UNCHANGED <<meaning, step>>
      /\ todo' = todo \ {id} /\ statuses' = statuses \cup {Status(id, {}, FALSE, FALSE, FALSE)}
  BY DEF Missing
<1>2. Grown
  BY <1>1 DEF Grown
<1>3. PICK s : s = Status(id, {}, FALSE, FALSE, FALSE)
  OBVIOUS
<1>4. s.up = {f.path : f \in UpOf(id)} /\ s.parses = FALSE
  BY <1>3 DEF Status
<1>5. Meaningful'
  BY <1>1 DEF Meaningful
<1> QED BY <1>1, <1>2, <1>3, <1>4, <1>5, OneMore

LEMMA AccompaniedKeeps ==
    ASSUME IInv, Typed, Meaningful, Reassured, NEW id \in todo, Accompanied(id)
    PROVE  Meaningful' /\ Reassured'
<1>1. UNCHANGED vars /\ step = "validating" /\ step' = step /\ todo' = todo \ {id}
  BY DEF Accompanied
<1>2. PICK up \in UpOf(id), down \in DownOf(id) :
      \E d \in Readings(Text(down)), u \in Readings(up.is) :
      \E cut \in IF ended THEN {"down"} ELSE {"never", "down", "up"} :
         LET parses == ~d.blank /\ d.parses /\ cut # "down"
         IN  /\ Text(down) = up.is => d = u
             /\ statuses' = statuses \cup
                  {Status(id, {down}, TRUE, parses, parses /\ u.parses /\ cut # "up" /\ Symmetric(u, d))}
             /\ ended' = (cut # "never")
             /\ meaning' = Knowing(Text(down), d, Knowing(up.is, u, meaning))
  BY DEF Accompanied
<1>t. Text(down) = down.is
  BY DEF Text
<1>3. PICK d \in Readings(Text(down)), u \in Readings(up.is), cut \in IF ended THEN {"down"} ELSE {"never", "down", "up"} :
         LET parses == ~d.blank /\ d.parses /\ cut # "down"
         IN  /\ Text(down) = up.is => d = u
             /\ statuses' = statuses \cup
                  {Status(id, {down}, TRUE, parses, parses /\ u.parses /\ cut # "up" /\ Symmetric(u, d))}
             /\ ended' = (cut # "never")
             /\ meaning' = Knowing(Text(down), d, Knowing(up.is, u, meaning))
  BY <1>2, Zenon
<1> DEFINE parses    == ~d.blank /\ d.parses /\ cut # "down"
           symmetric == parses /\ u.parses /\ cut # "up" /\ Symmetric(u, d)
<1>4. /\ up \in files /\ IsUp(up.path) /\ Identity(up.path) = id
      /\ down \in files /\ IsDown(down.path) /\ Identity(down.path) = id
  BY LastOf DEF UpOf, DownOf, Migrations
<1>5. up.is \in Versions /\ down.is \in Versions /\ up.path \in Paths /\ down.path \in Paths
  BY <1>4, VersionsOfFiles
<1>6. PICK between : between = Knowing(up.is, u, meaning)
  OBVIOUS
<1>7. /\ \A v \in DOMAIN between : v \in Contents /\ between[v] \in Says[v]
      /\ DOMAIN meaning \subseteq DOMAIN between /\ \A v \in DOMAIN meaning : between[v] = meaning[v]
      /\ up.is # Absent => up.is \in DOMAIN between /\ between[up.is] = u
      /\ DOMAIN between \subseteq DOMAIN meaning \cup {up.is}
  <2>1. \A v \in DOMAIN meaning : v \in Contents /\ meaning[v] \in Says[v]
    BY DEF Meaningful
  <2>2. up.is # Absent => u \in (IF up.is \in DOMAIN meaning THEN {meaning[up.is]} ELSE Says[up.is])
    BY ReadingsAre
  <2> QED BY <1>5, <1>6, <2>1, <2>2, KnowingGrows
<1>8. /\ \A v \in DOMAIN meaning' : v \in Contents /\ meaning'[v] \in Says[v]
      /\ DOMAIN between \subseteq DOMAIN meaning' /\ \A v \in DOMAIN between : meaning'[v] = between[v]
      /\ down.is # Absent => down.is \in DOMAIN meaning' /\ meaning'[down.is] = d
  <2>1. down.is # Absent => d \in (IF down.is \in DOMAIN meaning THEN {meaning[down.is]} ELSE Says[down.is])
    BY <1>t, ReadingsAre
  <2>2. down.is # Absent => d \in (IF down.is \in DOMAIN between THEN {between[down.is]} ELSE Says[down.is])
    <3>1. CASE down.is \in DOMAIN meaning
      BY <1>7, <2>1, <3>1
    <3>2. CASE down.is \notin DOMAIN meaning /\ down.is = up.is
      BY <1>t, <1>3, <1>7, <3>2
    <3>3. CASE down.is \notin DOMAIN meaning /\ down.is # up.is
      BY <1>7, <2>1, <3>3
    <3> QED BY <3>1, <3>2, <3>3
  <2>3. meaning' = Knowing(down.is, d, between)
    BY <1>t, <1>3, <1>6
  <2> QED BY <1>5, <1>7, <2>2, <2>3, KnowingGrows
<1>9. Meaningful' /\ Grown
  BY <1>7, <1>8 DEF Meaningful, Grown
<1>10. PICK s : s = Status(id, {down}, TRUE, parses, symmetric)
  OBVIOUS
<1>11. s.up = {f.path : f \in UpOf(id)} /\ s.down = {down.path} /\ s.parses = parses /\ s.symmetric = symmetric
  <2> HIDE DEF parses, symmetric
  <2> QED BY <1>10 DEF Status
<1>12. statuses' = statuses \cup {s}
  BY <1>3, <1>10
<1>13. ASSUME s.parses
       PROVE  Vouched(s)'
  <2>1. ~d.blank /\ d.parses
    BY <1>11, <1>13
  <2>2. down.is # Absent
    BY <1>t, <2>1, ReadingsAre DEF NoText, Script
  <2>3. AtHead(down)
    <3>1. phase = "done"
      BY <1>1 DEF Reassured
    <3> QED BY <1>4, <2>2, <3>1, ThereIsAtHead
  <2>4. AtHead(down)' /\ down \in files' /\ up \in files'
    BY <1>1, <1>4, <2>3 DEF AtHead, vars
  <2>5. down.path \in s.down /\ up.path \in s.up
    BY <1>2, <1>11
  <2>6. InDirectory(down.path) = InDirectory(up.path) => Dir[down.path] = Dir[up.path]
    BY <1>4, <1>5, OnePlace
  <2>7. down.is \in DOMAIN meaning' /\ meaning'[down.is] = d
    BY <1>8, <2>2
  <2>8. up.is # Absent => up.is \in DOMAIN meaning' /\ meaning'[up.is] = u
    BY <1>7, <1>8
  <2>9. s.symmetric => Effects(Makes, u) \subseteq Effects(Unmakes, d)
    <3>1. d \in Says[down.is] /\ down.is \in Contents
      BY <1>8, <2>7
    <3>2. \A k \in DOMAIN d.trees : Grammatical(d.trees[k])
      BY <3>1, SaysAssumption
    <3> QED BY <1>11, <3>2, SymmetryTakesBack
  <2> HIDE DEF parses, symmetric
  <2> QED BY <1>4, <2>1, <2>4, <2>5, <2>6, <2>7, <2>8, <2>9 DEF Vouched
<1> HIDE DEF parses, symmetric
<1> QED BY <1>1, <1>9, <1>11, <1>12, <1>13, OneMore

\* Reading goes on before any down is looked at, and the rest of the steps say
\* nothing of one.
LEMMA RestKeeps ==
    ASSUME Meaningful, Reassured, (Next /\ UNCHANGED downs) \/ Begin \/ Refuse \/ Answer \/ UNCHANGED <<vars, downs>>
    PROVE  Meaningful' /\ Reassured'
<1>1. CASE Next /\ UNCHANGED downs
  <2>1. phase # "done" /\ UNCHANGED <<meaning, todo, ended, statuses, step>>
    BY <1>1, ReturnedStays DEF downs
  <2>2. step \in {"waiting", "failed"} /\ statuses = {}
    BY <2>1 DEF Reassured
  <2> QED BY <2>1, <2>2 DEF Meaningful, Reassured
<1>2. CASE Begin
  <2>1. /\ UNCHANGED vars /\ UNCHANGED <<meaning, statuses>> /\ phase = "done" /\ phase' = "done"
        /\ step = "waiting" /\ step' = "validating" /\ todo' = {Identity(f.path) : f \in Ups}
    BY <1>2 DEF Begin, vars, Ups
  <2>2. \A f \in Ups' : Identity(f.path) \in todo'
    BY <2>1, UpOfStays
  <2>3. statuses' = {}
    BY <2>1 DEF Reassured
  <2> QED BY <2>1, <2>2, <2>3 DEF Meaningful, Reassured
<1>3. CASE Refuse
  <2>1. UNCHANGED <<meaning, statuses>> /\ step = "waiting" /\ step' = "failed"
    BY <1>3 DEF Refuse
  <2>2. statuses' = {}
    BY <2>1 DEF Reassured
  <2> QED BY <2>1, <2>2 DEF Meaningful, Reassured
<1>4. CASE Answer \/ UNCHANGED <<vars, downs>>
  <2>1. /\ UNCHANGED vars /\ UNCHANGED <<meaning, todo, statuses>>
        /\ step' = step \/ (step = "validating" /\ todo = {} /\ step' = "validated")
    BY <1>4 DEF Answer, downs
  <2>2. Grown
    BY <2>1 DEF Grown
  <2>3. \A s \in statuses' : s.parses => Vouched(s)'
    BY <2>1, <2>2, VouchedStays DEF Reassured
  <2>4. ASSUME step' \in {"validating", "validated"}, NEW f \in Ups'
        PROVE  Identity(f.path) \in todo' \/ AnsweredFor(Identity(f.path))'
    <3>1. PICK i : i = Identity(f.path)
      OBVIOUS
    <3>2. f \in Ups /\ UpOf(i)' = UpOf(i)
      BY <2>1, UpOfStays
    <3>3. i \in todo \/ AnsweredFor(i)
      BY <2>1, <2>4, <3>1, <3>2 DEF Reassured
    <3>4. i \in todo' \/ AnsweredFor(i)'
      BY <2>1, <3>2, <3>3 DEF AnsweredFor
    <3> QED BY <3>1, <3>4
  <2>5. UNCHANGED phase
    BY <2>1 DEF vars
  <2>6. Meaningful'
    BY <2>1 DEF Meaningful
  <2> QED BY <2>1, <2>3, <2>4, <2>5, <2>6 DEF Reassured
<1> QED BY <1>1, <1>2, <1>3, <1>4

LEMMA AlwaysReassured == ChangesetSpec => [](Meaningful /\ Reassured)
<1>1. ChangesetInit => Meaningful /\ Reassured
  BY DEF ChangesetInit, Init, Meaningful, Reassured
<1>2. IInv /\ Typed /\ Meaningful /\ Reassured /\ [ChangesetNext]_<<vars, downs>> => (Meaningful /\ Reassured)'
  <2> SUFFICES ASSUME IInv, Typed, Meaningful, Reassured, ChangesetNext \/ UNCHANGED <<vars, downs>>
               PROVE  Meaningful' /\ Reassured'
    OBVIOUS
  <2>1. CASE \E id \in todo : Missing(id) \/ Accompanied(id)
    BY <2>1, MissingKeeps, AccompaniedKeeps
  <2>2. CASE (Next /\ UNCHANGED downs) \/ Begin \/ Refuse \/ Answer \/ UNCHANGED <<vars, downs>>
    BY <2>2, RestKeeps
  <2> QED BY <2>1, <2>2 DEF ChangesetNext, Validation
<1> QED BY <1>1, <1>2, AlwaysInv, AlwaysTyped, PTL DEF ChangesetSpec

\* An up that shares its name and place with no other has a status of its own.
LEMMA ReassuredVouches ==
    ASSUME Typed, Reassured
    PROVE  DownsVouched
<1> SUFFICES ASSUME Validated PROVE
        /\ \A s \in statuses : s.parses =>
              \E f, g \in files :
                 /\ f.path \in s.down /\ IsDown(f.path) /\ AtHead(f)
                 /\ g.path \in s.up
                 /\ InDirectory(f.path) = InDirectory(g.path) => Dir[f.path] = Dir[g.path]
                 /\ meaning[f.is].parses /\ ~meaning[f.is].blank
                 /\ s.symmetric /\ g.is # Absent =>
                       Effects(Makes, meaning[g.is]) \subseteq Effects(Unmakes, meaning[f.is])
        /\ \A f \in files :
              IsUp(f.path) /\ (\A g \in files : IsUp(g.path) /\ Identity(g.path) = Identity(f.path) => g = f) =>
                 \E s \in statuses : f.path \in s.up
  BY DEF DownsVouched
<1>1. ASSUME NEW f \in files, IsUp(f.path),
             \A g \in files : IsUp(g.path) /\ Identity(g.path) = Identity(f.path) => g = f
      PROVE  \E s \in statuses : f.path \in s.up
  <2>1. PICK id : id = Identity(f.path)
    OBVIOUS
  <2>2. f \in Ups
    BY <1>1 DEF Ups, Migrations, IsUp
  <2>3. AnsweredFor(id)
    BY <2>1, <2>2 DEF Reassured, Validated
  <2>4. f \in UpOf(id)
    <3>1. f.path \notin After[f.path]
      BY VersionsOfFiles, NamesAssumption
    <3>2. \A g \in Migrations : IsUp(g.path) /\ Identity(g.path) = id => g = f
      BY <1>1, <2>1 DEF Migrations
    <3> QED BY <1>1, <2>1, <2>2, <3>1, <3>2 DEF UpOf, Last, Ups
  <2> QED BY <2>3, <2>4 DEF AnsweredFor
<1>2. ASSUME NEW s \in statuses, s.parses
      PROVE  Vouched(s)
  BY <1>2 DEF Reassured
<1> QED BY <1>1, <1>2 DEF Vouched

LEMMA MeaningfulNames ==
    ASSUME Meaningful
    PROVE  LossNamed
<1> SUFFICES ASSUME NEW t \in MetTrees, Destroys(t),
                    t.node \notin {"InsertStmt", "CreateTableAsStmt", "AlterTableStmt"} \/ Loses(t)
             PROVE  Graded(t) \cap Severe # {}
  BY DEF LossNamed
<1>1. PICK v \in DOMAIN meaning : \E k \in DOMAIN meaning[v].trees : t = meaning[v].trees[k]
  BY DEF MetTrees
<1>2. Grammatical(t)
  BY <1>1, SaysAssumption DEF Meaningful
<1> QED BY <1>2, LossGraded

-----------------------------------------------------------------------------
(* The theorems. *)

\* Every file of a changeset shows the two sides of one transition, whatever is
\* pushed while the call runs (git.go, github.go), or, as long as nobody
\* writes, of one pair of directories (fs.go).
THEOREM FilesShowOneTransition == ChangesetSpec => []OneTransition
BY AlwaysInv, PTL DEF IInv

\* What the change affects is enumerated, and read if an analyzer claims it,
\* unless something moved; what was chosen is always read (provider.go).
THEOREM EverythingIsRead == ChangesetSpec => []NothingSlipsAway
BY AlwaysInv, PTL DEF IInv

\* The types of one call: entries and files are of paths of the repository, and
\* a file has the sides that its status says are there (provider.go:84).
THEOREM Typing == ChangesetSpec => []TypeOK
BY AlwaysTyped, PTL DEF Typed

\* A down migration is said to parse only if it is in the tree under review and
\* parses, and to be symmetric only if it takes back what its up adds; and every
\* up is answered for.  Nothing is said of a status that says no more than that
\* the down is there: the code says that of one the change removes as well
\* (down.go:55-56).
THEOREM Vouching == ChangesetSpec => []DownsVouched
BY AlwaysTyped, AlwaysReassured, ReassuredVouches, PTL

\* Whatever a script loses is graded as a loss, or as unknown (pgquery.go,
\* rules.go).
THEOREM NamingLosses == ChangesetSpec => []LossNamed
BY AlwaysReassured, MeaningfulNames, PTL
=============================================================================
