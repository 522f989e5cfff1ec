-------------------------- MODULE KubernetesProofs --------------------------
(***************************************************************************)
(* The Kubernetes analyzer, for any number of manifests of any size.  The  *)
(* argument has two halves: while the files are read, each index says what *)
(* the last of them in path order says of an object, and nothing else      *)
(* (`Reading`); when all are read, each touched object was classified by   *)
(* what both indexes say of it (`Answered`).  Every property is read off   *)
(* these two.                                                              *)
(***************************************************************************)
EXTENDS Kubernetes, FunctionTheorems, FiniteSetTheorems, NaturalFacts, TLAPS

-----------------------------------------------------------------------------
(* The last of several, and path order. *)

\* Max is the greatest member, wherever there is one.
LEMMA MaxIsGreatest ==
    ASSUME NEW n \in Nat, NEW T \in SUBSET (1 .. n), T # {}
    PROVE  Max(T) \in T /\ \A y \in T : y <= Max(T)
<1>1. \E x \in T : \A y \in T : x >= y
  <2>1. PICK x \in T : \A y \in T : y <= x
    BY GreatestExists
  <2> QED BY <2>1
<1>2. Max(T) \in T /\ \A y \in T : Max(T) >= y
  BY <1>1 DEF Max
<1> QED BY <1>2

\* Who is in T and not below any of T is its greatest member.
LEMMA MaxIsUnique ==
    ASSUME NEW n \in Nat, NEW T \in SUBSET (1 .. n), NEW x \in T, \A y \in T : y <= x
    PROVE  Max(T) = x
<1>1. PICK m : m = Max(T)
  OBVIOUS
<1>2. m \in T /\ x <= m
  BY <1>1, MaxIsGreatest
<1>3. m <= x /\ m \in Int /\ x \in Int
  BY <1>2
<1> QED BY <1>1, <1>2, <1>3

LEMMA FilesAreFinite == IsFiniteSet(Files) /\ Cardinality(Files) = NumFiles
BY ManifestsAssumption, FS_Interval DEF Files

\* A listing of the files names every one of them.
LEMMA ListingIsWhole ==
    ASSUME NEW s \in SetToSeqs(Files)
    PROVE  /\ DOMAIN s = Files /\ Len(s) = NumFiles
           /\ \A i \in Files : s[i] \in Files
           /\ {s[i] : i \in DOMAIN s} = Files
<1>1. s \in [Files -> Files] /\ \A i, j \in Files : i # j => s[i] # s[j]
  BY FilesAreFinite DEF SetToSeqs, Files
<1>2. s \in Injection(Files, Files)
  BY <1>1 DEF Injection, IsInjective
<1>3. s \in Surjection(Files, Files)
  BY <1>2, FilesAreFinite, FS_Injection
<1>4. {s[i] : i \in Files} = Files
  BY <1>1, <1>3 DEF Surjection
<1>5. Len(s) = NumFiles
  BY <1>1, ManifestsAssumption DEF Files
<1> QED BY <1>1, <1>4, <1>5

\* Sorting a listing gives one in path order.
LEMMA SortedListing ==
    LET files == CHOOSE files \in SetToSeqs(Files) : InPathOrder(files)
    IN  files \in SetToSeqs(Files) /\ InPathOrder(files)
<1> DEFINE same == [i \in Files |-> i]
<1>1. same \in SetToSeqs(Files)
  BY FilesAreFinite DEF SetToSeqs, Files
<1>2. InPathOrder(same)
  BY DEF InPathOrder, Files
<1> QED BY <1>1, <1>2

-----------------------------------------------------------------------------
(* One side of a manifest. *)

WellFormed(text) == Len(text) \in Nat /\ DOMAIN text = 1 .. Len(text)

\* What a side says of an object is one of its documents.
LEMMA LastIsAmong ==
    ASSUME NEW text, WellFormed(text), NEW k \in Keys(text)
    PROVE  \E i \in DOMAIN text : /\ LastOf(text, k) = text[i] /\ Key(text[i]) = k
                                  /\ text[i].kind \notin {"", Blank, Malformed} /\ ~Fails(text)
<1> DEFINE T == {i \in Parsed(text) : Key(text[i]) = k}
<1>1. T # {} /\ T \subseteq 1 .. Len(text) /\ ~Fails(text)
  BY DEF Keys, Parsed, WellFormed
<1>2. Max(T) \in T
  <2> HIDE DEF T
  <2> QED BY <1>1, MaxIsGreatest DEF WellFormed
<1>3. LastOf(text, k) = text[Max(T)]
  BY DEF LastOf
<1>4. ASSUME NEW i \in T
      PROVE  i \in DOMAIN text /\ Key(text[i]) = k /\ text[i].kind \notin {"", Blank, Malformed}
  <2>1. Key(text[i]) = k /\ i \in DOMAIN text /\ text[i].kind # Blank
    BY <1>1 DEF Parsed
  <2>2. text[i].kind \notin {"", Malformed}
    BY <1>1, <2>1 DEF Fails
  <2> QED BY <2>1, <2>2
<1> HIDE DEF T
<1> QED BY <1>1, <1>2, <1>3, <1>4

\* It is a document of that identity, and objects have a kind.
LEMMA SideOfObject ==
    ASSUME NEW text, WellFormed(text), NEW k \in Keys(text)
    PROVE  /\ Key(LastOf(text, k)) = k
           /\ k.kind \notin {"", Blank, Malformed}
           /\ ~Fails(text)
<1>1. PICK i \in DOMAIN text : /\ LastOf(text, k) = text[i] /\ Key(text[i]) = k
                               /\ text[i].kind \notin {"", Blank, Malformed} /\ ~Fails(text)
  BY LastIsAmong
<1>2. k.kind = text[i].kind
  BY <1>1 DEF Key
<1> QED BY <1>1, <1>2

\* A side that does not parse, and one that is not there, hold nothing.
LEMMA FailedHoldsNothing == \A text : Fails(text) => Keys(text) = {}
BY DEF Keys, Parsed

LEMMA EmptyHoldsNothing == Keys(<< >>) = {} /\ ~Fails(<< >>)
BY DEF Keys, Parsed, Fails

-----------------------------------------------------------------------------
(* Reading: the indexes. *)

Holds(cs, f, side, k) == cs[f].yaml /\ k \in Keys(cs[f][side])

\* The files that were read; all before the one that is being read.
Seen == {order[i] : i \in {j \in Files : j < at}}

\* An index is what the files seen say, the last of them first of all.
IndexOf(cs, seen, side, index) ==
    /\ \A k \in DOMAIN index :
          /\ index[k].file \in seen /\ Holds(cs, index[k].file, side, k)
          /\ index[k] = [doc |-> LastOf(cs[index[k].file][side], k), file |-> index[k].file]
          /\ \A g \in seen : Holds(cs, g, side, k) => g <= index[k].file
    /\ \A g \in seen : \A k : Holds(cs, g, side, k) => k \in DOMAIN index

LEMMA NothingSeen ==
    ASSUME NEW cs, NEW side
    PROVE  IndexOf(cs, {}, side, NothingIndexed)
BY DEF IndexOf, NothingIndexed

\* A file that holds nothing on a side leaves its index as it is.
LEMMA IndexSkips ==
    ASSUME NEW cs, NEW seen, NEW side, NEW index, NEW f, IndexOf(cs, seen, side, index),
           \A k : ~Holds(cs, f, side, k)
    PROVE  IndexOf(cs, seen \cup {f}, side, index)
BY DEF IndexOf

\* The objects of the next file take their places.
LEMMA IndexGrows ==
    ASSUME NEW cs, NEW seen \in SUBSET Files, NEW side, NEW index, NEW f \in Files,
           IndexOf(cs, seen, side, index), cs[f].yaml, \A g \in seen : g < f
    PROVE  IndexOf(cs, seen \cup {f}, side, Indexed(index, f, cs[f][side]))
<1> DEFINE text == cs[f][side]
           grown == Indexed(index, f, text)
<1>1. /\ DOMAIN grown = DOMAIN index \cup Keys(text)
      /\ \A k \in Keys(text) : grown[k] = [doc |-> LastOf(text, k), file |-> f]
      /\ \A k \in DOMAIN index \ Keys(text) : grown[k] = index[k]
  BY DEF Indexed
<1>2. \A k : Holds(cs, f, side, k) <=> k \in Keys(text)
  BY DEF Holds
<1>3. ASSUME NEW k \in Keys(text)
      PROVE  /\ grown[k].file \in seen \cup {f} /\ Holds(cs, grown[k].file, side, k)
             /\ grown[k] = [doc |-> LastOf(cs[grown[k].file][side], k), file |-> grown[k].file]
             /\ \A g \in seen \cup {f} : g <= grown[k].file
  <2>1. grown[k] = [doc |-> LastOf(text, k), file |-> f]
    BY <1>1
  <2>2. grown[k].file = f
    BY <2>1
  <2>3. \A g \in seen \cup {f} : g <= f
    BY ManifestsAssumption DEF Files
  <2> HIDE DEF grown
  <2> QED BY <1>2, <2>1, <2>2, <2>3
<1>4. ASSUME NEW k \in DOMAIN index, k \notin Keys(text)
      PROVE  /\ grown[k].file \in seen \cup {f} /\ Holds(cs, grown[k].file, side, k)
             /\ grown[k] = [doc |-> LastOf(cs[grown[k].file][side], k), file |-> grown[k].file]
             /\ \A g \in seen \cup {f} : Holds(cs, g, side, k) => g <= grown[k].file
  <2>1. grown[k] = index[k]
    BY <1>1, <1>4
  <2> HIDE DEF grown
  <2> QED BY <1>2, <1>4, <2>1 DEF IndexOf
<1>5. \A g \in seen \cup {f} : \A k : Holds(cs, g, side, k) => k \in DOMAIN grown
  BY <1>1, <1>2 DEF IndexOf
<1> HIDE DEF grown
<1>6. IndexOf(cs, seen \cup {f}, side, grown)
  BY <1>1, <1>3, <1>4, <1>5 DEF IndexOf
<1> QED BY <1>6 DEF grown

-----------------------------------------------------------------------------
(* The inductive invariant. *)

\* File f has the object looked at.
Touches(f, k) ==
    /\ changeset[f].yaml /\ ~Fails(changeset[f].new)
    /\ \/ changeset[f].status = "REMOVED" /\ k \in Keys(changeset[f].old)
       \/ changeset[f].status # "REMOVED" /\ ~IsContext(changeset[f]) /\ k \in Keys(changeset[f].new)

Rest ==
    /\ order = << >> /\ at = 1
    /\ old = NothingIndexed /\ new = NothingIndexed
    /\ changed = {} /\ findings = {}

\* While files are read: what was read, and nothing else.
Reads ==
    /\ order \in SetToSeqs(Files) /\ InPathOrder(order) /\ at \in 1 .. NumFiles + 1
    /\ IndexOf(changeset, Seen, "old", old)
    /\ IndexOf(changeset, Seen, "new", new)

Gathers ==
    /\ \A k : k \in changed <=> \E f \in Seen : Touches(f, k)
    /\ findings = {Unread(f) : f \in {g \in Seen : Illegible(g)}}

\* In the end each touched object has an answer, and there is no other.
Answers ==
    /\ at = NumFiles + 1
    /\ \A k : k \in changed <=> (\E f \in Seen : Touches(f, k)) \/ k \in DOMAIN old \ DOMAIN new
    /\ \A f \in Files : Illegible(f) => Unread(f) \in findings
    /\ \A k \in changed : k \in DOMAIN old \cup DOMAIN new =>
          \E policy \in PolicyFor(k) : Classify(Change(k), policy) \subseteq findings
    /\ \A f \in findings :
          \/ \E g \in Files : Illegible(g) /\ f = Unread(g)
          \/ \E k \in changed : /\ k \in DOMAIN old \cup DOMAIN new
                                /\ \E policy \in PolicyFor(k) : f \in Classify(Change(k), policy)

IInv ==
    /\ changeset \in Changesets /\ handed \in SetToSeqs(Files)
    /\ phase \in {"handed", "reading", "returned", "failed"}
    /\ phase \in {"handed", "failed"} => Rest
    /\ phase \in {"reading", "returned"} => Reads
    /\ phase = "reading"  => Gathers
    /\ phase = "returned" => Answers

\* What a provider gives.
LEMMA FileIs ==
    ASSUME changeset \in Changesets, NEW f \in Files
    PROVE  /\ WellFormed(changeset[f].old) /\ WellFormed(changeset[f].new)
           /\ changeset[f].yaml \in BOOLEAN
           /\ changeset[f].status = "REMOVED" => changeset[f].new = << >>
BY ChangesetsAssumption DEF WellFormed

\* The file being read comes after all that were read.
LEMMA NextFile ==
    ASSUME Reads, at <= Len(order)
    PROVE  /\ order[at] \in Files /\ at \in Files /\ at + 1 \in 1 .. NumFiles + 1
           /\ Seen \subseteq Files /\ \A g \in Seen : g < order[at]
           /\ {order[i] : i \in {j \in Files : j < at + 1}} = Seen \cup {order[at]}
<1>1. DOMAIN order = Files /\ Len(order) = NumFiles /\ \A i \in Files : order[i] \in Files
  BY ListingIsWhole DEF Reads
<1>2. at \in Files /\ at + 1 \in 1 .. NumFiles + 1
  BY <1>1, ManifestsAssumption DEF Reads, Files
<1>3. \A g \in Seen : g < order[at]
  BY <1>1, <1>2 DEF Reads, InPathOrder, Seen
<1>4. \A j \in Files : j < at + 1 <=> j < at \/ j = at
  BY <1>2 DEF Files
<1>5. {order[i] : i \in {j \in Files : j < at + 1}} = Seen \cup {order[at]}
  BY <1>2, <1>4 DEF Seen
<1> QED BY <1>1, <1>2, <1>3, <1>5 DEF Seen

\* When nothing is left to read, every file was.
LEMMA AllSeen ==
    ASSUME Reads, at > Len(order)
    PROVE  at = NumFiles + 1 /\ Seen = Files
<1>1. Len(order) = NumFiles /\ DOMAIN order = Files /\ {order[i] : i \in DOMAIN order} = Files
  BY ListingIsWhole DEF Reads
<1>2. at = NumFiles + 1
  BY <1>1, ManifestsAssumption DEF Reads
<1>3. {j \in Files : j < at} = Files
  BY <1>2, ManifestsAssumption DEF Files
<1> QED BY <1>1, <1>2, <1>3 DEF Seen

-----------------------------------------------------------------------------
(* Every step keeps it. *)

\* A file is read when its objects are in the indexes, what it touches and
\* whether it was refused are noted, and nothing else happened.
LEMMA FileRead ==
    ASSUME Reads, Gathers, at <= Len(order), at' = at + 1, UNCHANGED <<changeset, order>>,
           IndexOf(changeset, Seen \cup {order[at]}, "old", old'),
           IndexOf(changeset, Seen \cup {order[at]}, "new", new'),
           \A k : k \in changed' <=> k \in changed \/ Touches(order[at], k),
           findings' = findings \cup If(Illegible(order[at]), Unread(order[at]))
    PROVE  Reads' /\ Gathers'
<1>1. Seen' = Seen \cup {order[at]}
  BY NextFile DEF Seen
<1>2. Reads'
  BY <1>1, NextFile DEF Reads, InPathOrder
<1>3. \A f : (Illegible(f)' <=> Illegible(f)) /\ \A k : Touches(f, k)' <=> Touches(f, k)
  BY DEF Illegible, Touches
<1>4. \A k : k \in changed' <=> \E f \in Seen' : Touches(f, k)'
  BY <1>1, <1>3 DEF Gathers
<1>5. findings' = {Unread(f) : f \in {g \in Seen' : Illegible(g)'}}
  <2>1. CASE Illegible(order[at])
    <3>1. {g \in Seen' : Illegible(g)'} = {g \in Seen : Illegible(g)} \cup {order[at]}
      BY <1>1, <1>3, <2>1
    <3>2. findings' = findings \cup {Unread(order[at])}
      BY <2>1 DEF If
    <3> QED BY <3>1, <3>2 DEF Gathers
  <2>2. CASE ~Illegible(order[at])
    <3>1. {g \in Seen' : Illegible(g)'} = {g \in Seen : Illegible(g)}
      BY <1>1, <1>3, <2>2
    <3>2. findings' = findings
      BY <2>2 DEF If
    <3> QED BY <3>1, <3>2 DEF Gathers
  <2> QED BY <2>1, <2>2
<1> QED BY <1>2, <1>4, <1>5 DEF Gathers

LEMMA PassOverReads == IInv /\ PassOver => Reads' /\ Gathers'
<1> SUFFICES ASSUME IInv, PassOver PROVE Reads' /\ Gathers'
  OBVIOUS
<1>1. Reads /\ Gathers /\ at <= Len(order) /\ ~changeset[order[at]].yaml
  BY DEF IInv, PassOver, Reading, File
<1>2. \A side, k : ~Holds(changeset, order[at], side, k)
  BY <1>1 DEF Holds
<1>3. ~Illegible(order[at]) /\ \A k : ~Touches(order[at], k)
  BY <1>1 DEF Illegible, Touches
<1>4. findings' = findings \cup If(Illegible(order[at]), Unread(order[at]))
  BY <1>3 DEF If, PassOver
<1>5. IndexOf(changeset, Seen \cup {order[at]}, "old", old') /\ IndexOf(changeset, Seen \cup {order[at]}, "new", new')
  BY <1>1, <1>2, IndexSkips DEF PassOver, Reads
<1> QED BY <1>1, <1>3, <1>4, <1>5, FileRead DEF PassOver

LEMMA UnparsableReads == IInv /\ Unparsable => Reads' /\ Gathers'
<1> SUFFICES ASSUME IInv, Unparsable PROVE Reads' /\ Gathers'
  OBVIOUS
<1>1. Reads /\ Gathers /\ at <= Len(order) /\ changeset[order[at]].yaml /\ Fails(changeset[order[at]].new)
  BY DEF IInv, Unparsable, Reading, File
<1>2. order[at] \in Files /\ Seen \subseteq Files /\ \A g \in Seen : g < order[at]
  BY <1>1, NextFile
<1>3. \A k : ~Holds(changeset, order[at], "new", k)
  BY <1>1, FailedHoldsNothing DEF Holds
<1>4. Illegible(order[at]) /\ \A k : ~Touches(order[at], k)
  BY <1>1 DEF Illegible, Touches
<1>5. findings' = findings \cup If(Illegible(order[at]), Unread(order[at]))
  BY <1>4 DEF If, Unparsable
<1>6. IndexOf(changeset, Seen \cup {order[at]}, "old", old')
  BY <1>1, <1>2, IndexGrows DEF Unparsable, Reads, File
<1>7. IndexOf(changeset, Seen \cup {order[at]}, "new", new')
  BY <1>1, <1>3, IndexSkips DEF Unparsable, Reads
<1> QED BY <1>1, <1>4, <1>5, <1>6, <1>7, FileRead DEF Unparsable

LEMMA ReadKeptReads == IInv /\ ReadKept => Reads' /\ Gathers'
<1> SUFFICES ASSUME IInv, ReadKept PROVE Reads' /\ Gathers'
  OBVIOUS
<1>1. /\ Reads /\ Gathers /\ at <= Len(order) /\ changeset[order[at]].yaml
      /\ ~Fails(changeset[order[at]].new) /\ changeset[order[at]].status # "REMOVED"
  BY DEF IInv, ReadKept, Reading, File
<1>2. order[at] \in Files /\ Seen \subseteq Files /\ \A g \in Seen : g < order[at]
  BY <1>1, NextFile
<1>3. ~Illegible(order[at])
  BY <1>1 DEF Illegible
<1>4. \A k : Touches(order[at], k) <=> ~IsContext(changeset[order[at]]) /\ k \in Keys(changeset[order[at]].new)
  BY <1>1 DEF Touches
<1>5. \A k : k \in changed' <=> k \in changed \/ Touches(order[at], k)
  BY <1>4 DEF ReadKept, File
<1>6. findings' = findings \cup If(Illegible(order[at]), Unread(order[at]))
  BY <1>3 DEF If, ReadKept
<1>7. IndexOf(changeset, Seen \cup {order[at]}, "old", old')
  BY <1>1, <1>2, IndexGrows DEF ReadKept, Reads, File
<1>8. IndexOf(changeset, Seen \cup {order[at]}, "new", new')
  BY <1>1, <1>2, IndexGrows DEF ReadKept, Reads, File
<1> QED BY <1>1, <1>5, <1>6, <1>7, <1>8, FileRead DEF ReadKept

LEMMA ReadRemovedReads == IInv /\ ReadRemoved => Reads' /\ Gathers'
<1> SUFFICES ASSUME IInv, ReadRemoved PROVE Reads' /\ Gathers'
  OBVIOUS
<1>1. /\ Reads /\ Gathers /\ at <= Len(order) /\ changeset[order[at]].yaml
      /\ ~Fails(changeset[order[at]].new) /\ changeset[order[at]].status = "REMOVED"
  BY DEF IInv, ReadRemoved, Reading, File
<1>2. order[at] \in Files /\ Seen \subseteq Files /\ \A g \in Seen : g < order[at]
  BY <1>1, NextFile
<1>3. \A k : ~Holds(changeset, order[at], "new", k)
  BY <1>1, <1>2, FileIs, EmptyHoldsNothing DEF Holds, IInv
<1>4. Illegible(order[at]) <=> Fails(changeset[order[at]].old)
  BY <1>1 DEF Illegible
<1>5. \A k : Touches(order[at], k) <=> k \in Keys(changeset[order[at]].old)
  BY <1>1 DEF Touches
<1>6. \A k : k \in changed' <=> k \in changed \/ Touches(order[at], k)
  BY <1>5 DEF ReadRemoved, File
<1>7. findings' = findings \cup If(Illegible(order[at]), Unread(order[at]))
  BY <1>4 DEF If, ReadRemoved, File
<1>8. IndexOf(changeset, Seen \cup {order[at]}, "old", old')
  BY <1>1, <1>2, IndexGrows DEF ReadRemoved, Reads, File
<1>9. IndexOf(changeset, Seen \cup {order[at]}, "new", new')
  BY <1>1, <1>3, IndexSkips DEF ReadRemoved, Reads
<1> QED BY <1>1, <1>6, <1>7, <1>8, <1>9, FileRead DEF ReadRemoved

LEMMA SortReads == IInv /\ Sort => Reads' /\ Gathers'
<1> SUFFICES ASSUME IInv, Sort PROVE Reads' /\ Gathers'
  OBVIOUS
<1>1. Rest /\ handed \in SetToSeqs(Files)
  BY DEF IInv, Sort
<1>2. order' \in SetToSeqs(Files) /\ InPathOrder(order')
  BY <1>1, ListingIsWhole, SortedListing DEF Sort
<1>3. Seen' = {}
  <2>1. at' = 1 /\ {j \in Files : j < 1} = {}
    BY <1>1, ManifestsAssumption DEF Rest, Sort, Files
  <2> QED BY <2>1 DEF Seen
<1>4. at' \in 1 .. NumFiles + 1
  BY <1>1, ManifestsAssumption DEF Rest, Sort
<1>5. Reads'
  BY <1>1, <1>2, <1>3, <1>4, NothingSeen DEF Reads, InPathOrder, Rest, Sort
<1> QED BY <1>1, <1>3, <1>5 DEF Gathers, Rest, Sort

\* What is said of an object depends on the indexes, and on nothing else that
\* changes when the call returns.
LEMMA SaysTheSame ==
    ASSUME UNCHANGED <<old, new>>, NEW k
    PROVE  PolicyFor(k)' = PolicyFor(k) /\ \A policy : Classify(Change(k), policy)' = Classify(Change(k), policy)
<1>1. PolicyFor(k)' = PolicyFor(k)
  BY DEF PolicyFor, Reclaims
<1>2. Change(k)' = Change(k)
  BY DEF Change
<1>3. \A c : ConfigRemoved(c)' = ConfigRemoved(c)
  BY DEF ConfigRemoved, Referents
<1>4. ASSUME NEW policy
      PROVE  Classify(Change(k), policy)' = Classify(Change(k), policy)
  BY <1>2, <1>3 DEF Classify
<1> QED BY <1>1, <1>4

LEMMA ReturnAnswers == IInv /\ Return => Reads' /\ Answers'
<1> SUFFICES ASSUME IInv, Return PROVE Reads' /\ Answers'
  OBVIOUS
<1>1. Reads /\ Gathers /\ at = NumFiles + 1 /\ Seen = Files
  BY AllSeen DEF IInv, Return
<1>2. Seen' = Seen /\ \A f : (Illegible(f)' <=> Illegible(f)) /\ \A k : Touches(f, k)' <=> Touches(f, k)
  BY DEF Illegible, Touches, Seen, Return
<1>3. Reads'
  BY <1>1, <1>2 DEF Reads, InPathOrder, Return
<1>4. \A k : k \in changed' <=> (\E f \in Seen : Touches(f, k)) \/ k \in DOMAIN old \ DOMAIN new
  BY <1>1 DEF Gathers, Return, Touched
<1>5. PICK policy \in [Touched -> UNION {PolicyFor(k) : k \in Touched}] :
          /\ \A k \in Touched : policy[k] \in PolicyFor(k)
          /\ findings' = findings \cup UNION {Classify(Change(k), policy[k]) :
                                                k \in Touched \cap (DOMAIN old \cup DOMAIN new)}
  BY DEF Return
<1>6. \A k : /\ PolicyFor(k)' = PolicyFor(k)
             /\ \A p : Classify(Change(k), p)' = Classify(Change(k), p)
  BY SaysTheSame DEF Return
<1>7. changed' = Touched /\ old' = old /\ new' = new /\ at' = at
  BY DEF Return
<1>8. \A f \in Files : Illegible(f) => Unread(f) \in findings'
  BY <1>1, <1>5 DEF Gathers
<1>9. \A k \in changed' : k \in DOMAIN old \cup DOMAIN new =>
          \E p \in PolicyFor(k) : Classify(Change(k), p) \subseteq findings'
  BY <1>5, <1>7
<1>10. ASSUME NEW f \in findings'
       PROVE  \/ \E g \in Files : Illegible(g) /\ f = Unread(g)
              \/ \E k \in changed' : /\ k \in DOMAIN old \cup DOMAIN new
                                     /\ \E p \in PolicyFor(k) : f \in Classify(Change(k), p)
  <2>1. CASE f \in findings
    BY <1>1, <2>1 DEF Gathers
  <2>2. CASE f \notin findings
    BY <1>5, <1>7, <2>2
  <2> QED BY <2>1, <2>2
<1>11. Answers'
  BY <1>1, <1>2, <1>4, <1>6, <1>7, <1>8, <1>9, <1>10 DEF Answers
<1> QED BY <1>3, <1>11

LEMMA InitIInv == Init => IInv
<1> SUFFICES ASSUME Init PROVE IInv
  OBVIOUS
<1> QED BY DEF Init, IInv, Rest

LEMMA NextIInv == IInv /\ [Next]_vars => IInv'
<1> SUFFICES ASSUME IInv, [Next]_vars PROVE IInv'
  OBVIOUS
<1>1. CASE Sort
  BY <1>1, SortReads DEF IInv, Sort
<1>2. CASE PassOver
  BY <1>2, PassOverReads DEF IInv, PassOver, Reading
<1>3. CASE Unparsable
  BY <1>3, UnparsableReads DEF IInv, Unparsable, Reading
<1>4. CASE ReadKept
  BY <1>4, ReadKeptReads DEF IInv, ReadKept, Reading
<1>5. CASE ReadRemoved
  BY <1>5, ReadRemovedReads DEF IInv, ReadRemoved, Reading
<1>6. CASE Return
  BY <1>6, ReturnAnswers DEF IInv, Return
<1>7. CASE Cancelled
  BY <1>7 DEF IInv, Cancelled, Rest
<1>8. CASE UNCHANGED vars
  <2>1. UNCHANGED <<changeset, handed, order, at, old, new, changed, findings, phase>>
    BY <1>8 DEF vars
  <2>2. Rest => Rest'
    BY <2>1 DEF Rest
  <2>3. Seen' = Seen /\ \A f : (Illegible(f)' <=> Illegible(f)) /\ \A k : Touches(f, k)' <=> Touches(f, k)
    BY <2>1 DEF Illegible, Touches, Seen
  <2>4. Reads => Reads'
    BY <2>1, <2>3 DEF Reads, InPathOrder
  <2>5. Gathers => Gathers'
    BY <2>1, <2>3 DEF Gathers
  <2>6. \A k : /\ PolicyFor(k)' = PolicyFor(k)
               /\ \A p : Classify(Change(k), p)' = Classify(Change(k), p)
    BY <2>1, SaysTheSame
  <2>7. Answers => Answers'
    <3> SUFFICES ASSUME Answers PROVE Answers'
      OBVIOUS
    <3>1. at = NumFiles + 1 /\ \A k : k \in changed <=> (\E f \in Seen : Touches(f, k)) \/ k \in DOMAIN old \ DOMAIN new
      BY DEF Answers
    <3>2. \A f \in Files : Illegible(f) => Unread(f) \in findings
      BY DEF Answers
    <3>3. \A k \in changed : k \in DOMAIN old \cup DOMAIN new =>
              \E p \in PolicyFor(k) : Classify(Change(k), p) \subseteq findings
      BY DEF Answers
    <3>4. \A f \in findings :
              \/ \E g \in Files : Illegible(g) /\ f = Unread(g)
              \/ \E k \in changed : /\ k \in DOMAIN old \cup DOMAIN new
                                    /\ \E p \in PolicyFor(k) : f \in Classify(Change(k), p)
      BY DEF Answers
    <3>5. /\ \A f \in Files : Illegible(f)' => Unread(f) \in findings'
          /\ \A k \in changed' : k \in DOMAIN old' \cup DOMAIN new' =>
                \E p \in PolicyFor(k)' : Classify(Change(k), p)' \subseteq findings'
      BY <2>1, <2>3, <2>6, <3>2, <3>3
    <3>6. \A f \in findings' :
              \/ \E g \in Files : Illegible(g)' /\ f = Unread(g)
              \/ \E k \in changed' : /\ k \in DOMAIN old' \cup DOMAIN new'
                                     /\ \E p \in PolicyFor(k)' : f \in Classify(Change(k), p)'
      BY <2>1, <2>3, <2>6, <3>4
    <3>7. /\ at' = NumFiles + 1
          /\ \A k : k \in changed' <=> (\E f \in Seen' : Touches(f, k)') \/ k \in DOMAIN old' \ DOMAIN new'
      BY <2>1, <2>3, <3>1
    <3> QED BY <3>5, <3>6, <3>7 DEF Answers
  <2> QED BY <2>1, <2>2, <2>4, <2>5, <2>7 DEF IInv
<1> QED BY <1>1, <1>2, <1>3, <1>4, <1>5, <1>6, <1>7, <1>8 DEF Next

THEOREM Invariant == Spec => []IInv
<1>1. Init => IInv
  BY InitIInv
<1>2. IInv /\ [Next]_vars => IInv'
  BY NextIInv
<1> QED BY <1>1, <1>2, PTL DEF Spec

-----------------------------------------------------------------------------
(* What the indexes say in the end. *)

\* An index of all files says of each object what the last of its holders does.
LEMMA IndexStands ==
    ASSUME NEW side \in {"old", "new"}, NEW index, IndexOf(changeset, Files, side, index)
    PROVE  /\ DOMAIN index = Held(side)
           /\ \A k : k \in DOMAIN index <=> Holders(side, k) # {}
           /\ \A k : In(index, k) = Stands(side, k)
           /\ \A k \in DOMAIN index : index[k].file \in Holders(side, k) /\ index[k] # Absent
<1>1. \A f \in Files : \A k : f \in Holders(side, k) <=> Holds(changeset, f, side, k)
  BY DEF Holders, Holds
<1>2. \A k : k \in DOMAIN index <=> Holders(side, k) # {}
  BY <1>1 DEF IndexOf, Holders
<1>3. \A k : k \in Held(side) <=> Holders(side, k) # {}
  BY DEF Held, Holders
<1>4. ASSUME NEW k \in DOMAIN index
      PROVE  index[k] = Stands(side, k) /\ index[k].file \in Holders(side, k) /\ index[k] # Absent
  <2>1. index[k].file \in Holders(side, k) /\ \A g \in Holders(side, k) : g <= index[k].file
    BY <1>1 DEF IndexOf, Holders
  <2>2. Max(Holders(side, k)) = index[k].file
    BY <2>1, MaxIsUnique, ManifestsAssumption DEF Holders, Files
  <2>3. index[k] = [doc |-> LastOf(changeset[index[k].file][side], k), file |-> index[k].file]
    BY DEF IndexOf
  <2>4. index[k].file # Absent.file
    BY <2>1 DEF Holders, Files, Absent
  <2> QED BY <1>2, <2>1, <2>2, <2>3, <2>4 DEF Stands
<1>5. ASSUME NEW k, k \notin DOMAIN index
      PROVE  In(index, k) = Stands(side, k)
  BY <1>2, <1>5 DEF In, Stands
<1>6. DOMAIN index = Held(side)
  BY <1>2, <1>3
<1> QED BY <1>2, <1>4, <1>5, <1>6 DEF In

LEMMA InTheEnd ==
    ASSUME IInv, Returned
    PROVE  /\ Answers /\ Seen = Files
           /\ IndexOf(changeset, Files, "old", old) /\ IndexOf(changeset, Files, "new", new)
<1>1. Reads /\ Answers /\ at = NumFiles + 1
  BY DEF IInv, Returned, Answers
<1>2. at > Len(order)
  BY <1>1, ListingIsWhole, ManifestsAssumption DEF Reads
<1> QED BY <1>1, <1>2, AllSeen DEF Reads

\* What the end says, in the words of the properties: `Held` and `Stands` for
\* the indexes, and who is looked at.
LEMMA EndSays ==
    ASSUME IInv, Returned
    PROVE  /\ DOMAIN old = Held("old") /\ DOMAIN new = Held("new")
           /\ \A k : Change(k) = [key |-> k, was |-> Stands("old", k), is |-> Stands("new", k)]
           /\ \A side \in {"old", "new"} : \A k :
                 /\ k \in Held(side) <=> Holders(side, k) # {}
                 /\ k \in Held(side) <=> Stands(side, k) # Absent
                 /\ k \in Held(side) => Stands(side, k).file \in Holders(side, k)
           /\ \A k : k \in changed <=> (\E f \in Files : Touches(f, k)) \/ k \in Held("old") \ Held("new")
<1>1. /\ Answers /\ Seen = Files
      /\ IndexOf(changeset, Files, "old", old) /\ IndexOf(changeset, Files, "new", new)
  BY InTheEnd
<1>2. DOMAIN old = Held("old") /\ DOMAIN new = Held("new")
  BY <1>1, IndexStands
<1>3. \A k : In(old, k) = Stands("old", k) /\ In(new, k) = Stands("new", k)
  BY <1>1, IndexStands
<1>4. \A side \in {"old", "new"} : \A k : Holders(side, k) = {} => Stands(side, k) = Absent
  BY DEF Stands
<1>5. ASSUME NEW k
      PROVE  /\ k \in Held("old") => Stands("old", k).file \in Holders("old", k) /\ Stands("old", k) # Absent
             /\ k \in Held("new") => Stands("new", k).file \in Holders("new", k) /\ Stands("new", k) # Absent
  BY <1>1, <1>2, <1>3, IndexStands DEF In
<1>6. \A k : /\ k \in Held("old") <=> Holders("old", k) # {}
             /\ k \in Held("new") <=> Holders("new", k) # {}
  BY <1>1, <1>2, IndexStands
<1>7. \A k : Change(k) = [key |-> k, was |-> Stands("old", k), is |-> Stands("new", k)]
  BY <1>3 DEF Change
<1>8. \A k : k \in changed <=> (\E f \in Files : Touches(f, k)) \/ k \in Held("old") \ Held("new")
  BY <1>1, <1>2 DEF Answers
<1>9. \A side \in {"old", "new"} : \A k :
         /\ k \in Held(side) <=> Holders(side, k) # {}
         /\ k \in Held(side) <=> Stands(side, k) # Absent
         /\ k \in Held(side) => Stands(side, k).file \in Holders(side, k)
  BY <1>4, <1>5, <1>6
<1> QED BY <1>2, <1>7, <1>8, <1>9

-----------------------------------------------------------------------------
(* The two indexes. *)

\* The last file wins: in the end each index says of an object what the last
\* file in path order that holds it says, whatever order they were passed in.
THEOREM TheLastFileWins == Spec => []LastFileWins
<1>1. IInv => LastFileWins
  <2> SUFFICES ASSUME IInv, Returned
               PROVE  \A k : In(old, k) = Stands("old", k) /\ In(new, k) = Stands("new", k)
    BY DEF LastFileWins
  <2> QED BY InTheEnd, IndexStands
<1> QED BY <1>1, Invariant, PTL

-----------------------------------------------------------------------------
(* One object. *)

LEMMA LoneHolder ==
    ASSUME NEW k, Lone(k), NEW side \in {"old", "new"}, NEW f \in Holders(side, k), NEW g \in Holders(side, k)
    PROVE  f = g
<1> SUFFICES ASSUME f # g PROVE FALSE
  OBVIOUS
<1>1. IsFiniteSet(Holders(side, k)) /\ Cardinality(Holders(side, k)) \in Nat
  BY FilesAreFinite, FS_Subset, FS_CardinalityType DEF Holders
<1>2. IsFiniteSet({f}) /\ Cardinality({f, g}) = 2
  <2>1. IsFiniteSet({f}) /\ Cardinality({f}) = 1 /\ {f} \cup {g} = {f, g}
    BY FS_Singleton
  <2> QED BY <2>1, FS_AddElement
<1>3. Cardinality({f, g}) <= Cardinality(Holders(side, k))
  BY <1>1, FS_Subset
<1> QED BY <1>1, <1>2, <1>3 DEF Lone

\* Where an object stands is a file that holds it, and says what it is.
LEMMA Standing ==
    ASSUME IInv, Returned, NEW side \in {"old", "new"}, NEW k \in Held(side)
    PROVE  LET f == Stands(side, k).file IN
           /\ f \in Files /\ f \in Holders(side, k) /\ changeset[f].yaml /\ k \in Keys(changeset[f][side])
           /\ Stands(side, k).doc = LastOf(changeset[f][side], k)
           /\ WellFormed(changeset[f][side]) /\ ~Fails(changeset[f][side])
           /\ side = "new" => changeset[f].status # "REMOVED"
<1>1. Holders(side, k) # {} /\ Stands(side, k).file \in Holders(side, k)
  BY EndSays
<1>2. PICK f \in Files : f = Stands(side, k).file
  BY <1>1 DEF Holders
<1>3. f \in Holders(side, k) /\ changeset[f].yaml /\ k \in Keys(changeset[f][side])
  BY <1>1, <1>2 DEF Holders
<1>4. Stands(side, k).doc = LastOf(changeset[f][side], k)
  BY <1>1, <1>2 DEF Stands
<1>5. WellFormed(changeset[f][side]) /\ (changeset[f].status = "REMOVED" => changeset[f].new = << >>)
  BY FileIs DEF IInv
<1>6. side = "new" => changeset[f].status # "REMOVED"
  BY <1>3, <1>5, EmptyHoldsNothing
<1> QED BY <1>2, <1>3, <1>4, <1>5, <1>6, FailedHoldsNothing

\* An object that is not the same on both sides is looked at: it is gone, or
\* the file it stands in changed.
LEMMA DifferenceIsTouched ==
    ASSUME IInv, Returned, NEW k, k \in Held("old") \cup Held("new"), Lone(k),
           Stands("old", k).doc # Stands("new", k).doc
    PROVE  k \in changed
<1>1. CASE k \notin Held("new")
  BY <1>1, EndSays
<1>2. CASE k \in Held("new")
  <2> DEFINE f == Stands("new", k).file
  <2>1. /\ f \in Files /\ f \in Holders("new", k) /\ changeset[f].yaml /\ k \in Keys(changeset[f].new)
        /\ Stands("new", k).doc = LastOf(changeset[f].new, k)
        /\ ~Fails(changeset[f].new) /\ changeset[f].status # "REMOVED"
    BY <1>2, Standing
  <2> HIDE DEF f
  <2>2. CASE ~IsContext(changeset[f])
    BY <2>1, <2>2, EndSays DEF Touches
  <2>3. CASE IsContext(changeset[f])
    <3>1. changeset[f].old = changeset[f].new /\ f \in Holders("old", k)
      BY <2>1, <2>3 DEF IsContext, Holders
    <3>2. k \in Held("old")
      BY <3>1, EndSays
    <3>3. Stands("old", k).file = f
      BY <3>1, <3>2, Standing, LoneHolder
    <3>4. Stands("old", k).doc = LastOf(changeset[f].old, k)
      BY <3>2, <3>3, Standing
    <3> QED BY <2>1, <3>1, <3>4
  <2> QED BY <2>2, <2>3
<1> QED BY <1>1, <1>2

\* Every finding of an object bears its identity, and stands in its file; a
\* rule of 1 to 15, and the verdict of that rule.
LEMMA FindingOf ==
    ASSUME NEW c, NEW policy, NEW f \in Classify(c, policy)
    PROVE  /\ f.key = c.key /\ f.file = IF c.is # Absent THEN c.is.file ELSE c.was.file
           /\ f.rule \in 1 .. 15 /\ f.rev \in {"REVERSIBLE", "COSTLY", "UNKNOWN", "IRREVERSIBLE"}
           /\ f.rev = "IRREVERSIBLE" => f.rule \in 1 .. 6
           /\ f.rule = 13 => Added(c)
           /\ f.rule \in {3, 6, 9} => Removed(c)
           /\ f.rule = 9 <=> f \in ConfigRemoved(c)
<1> DEFINE OK(g) == /\ g.key = c.key /\ g.file = IF c.is # Absent THEN c.is.file ELSE c.was.file
                    /\ g.rule \in 1 .. 15 /\ g.rev \in {"REVERSIBLE", "COSTLY", "UNKNOWN", "IRREVERSIBLE"}
                    /\ g.rev = "IRREVERSIBLE" => g.rule \in 1 .. 6
                    /\ g.rule = 13 => Added(c)
                    /\ g.rule \in {3, 6, 9} => Removed(c)
<1>1. \A g \in ClaimRules(c, policy) : OK(g) /\ g.rule # 9
  <2>1. \A g \in ClaimRemoved(c, policy) : OK(g) /\ g.rule # 9
    BY DEF ClaimRemoved, If, Find
  <2>2. \A g \in ClaimShrunk(c) : OK(g) /\ g.rule # 9
    BY DEF ClaimShrunk, If, Find
  <2>3. \A g \in If(Differs(c, "class"), Find(5, "IRREVERSIBLE", c, << >>)) : OK(g) /\ g.rule # 9
    BY DEF If, Find
  <2> HIDE DEF OK
  <2> QED BY <2>1, <2>2, <2>3 DEF ClaimRules
<1>2. \A g \in WorkloadRules(c) : OK(g) /\ g.rule # 9
  <2>1. \A g \in ImageNotPinned(c) : OK(g) /\ g.rule # 9
    BY DEF ImageNotPinned, Find
  <2>2. \A g \in If(Added(c), Find(13, "REVERSIBLE", c, << >>)) : OK(g) /\ g.rule # 9
    BY DEF If, Find
  <2>3. \A g \in ImmutableRules(c) : OK(g) /\ g.rule # 9
    BY DEF ImmutableRules, If, Find
  <2>4. \A g \in RecreateStrategy(c) : OK(g) /\ g.rule # 9
    BY DEF RecreateStrategy, If, Find
  <2>5. \A g \in ProbeRemoved(c) : OK(g) /\ g.rule # 9
    BY DEF ProbeRemoved, Find
  <2>6. \A g \in TuningChanged(c) : OK(g) /\ g.rule # 9
    BY DEF TuningChanged, Find
  <2>7. \A g \in ImageChangedPinned(c) : OK(g) /\ g.rule # 9
    BY DEF ImageChangedPinned, Find
  <2> HIDE DEF OK
  <2> QED BY <2>1, <2>2, <2>3, <2>4, <2>5, <2>6, <2>7 DEF WorkloadRules
<1>3. \A g \in ContainersRemoved(c) : OK(g) /\ g.rule # 9
  BY DEF ContainersRemoved, If, Find
<1>4. \A g \in ServiceChanged(c) : OK(g) /\ g.rule # 9
  BY DEF ServiceChanged, If, Find
<1>5. \A g \in ConfigRemoved(c) : OK(g) /\ g.rule = 9
  BY DEF ConfigRemoved, If, Find
<1>6. OK(Find(14, "UNKNOWN", c, << >>)) /\ Find(14, "UNKNOWN", c, << >>).rule # 9
  BY DEF Find
<1>7. OK(f) /\ (f.rule = 9 <=> f \in ConfigRemoved(c))
  <2> HIDE DEF OK
  <2> QED BY <1>1, <1>2, <1>3, <1>4, <1>5, <1>6 DEF Classify
<1> QED BY <1>7

\* No touched object is passed over in silence.
LEMMA AlwaysAnswered == \A c, policy : Classify(c, policy) # {}
BY DEF Classify

\* A finding is about a refused file, or of an object that was looked at.
LEMMA FindingIs ==
    ASSUME IInv, Returned, NEW f \in findings
    PROVE  \/ \E g \in Files : Illegible(g) /\ f = Unread(g)
           \/ \E k \in changed : /\ k \in Held("old") \cup Held("new") /\ k.kind # ""
                                 /\ f.key = k
                                 /\ \E policy \in PolicyFor(k) : f \in Classify(Change(k), policy)
<1>1. CASE \E g \in Files : Illegible(g) /\ f = Unread(g)
  BY <1>1
<1>2. CASE ~\E g \in Files : Illegible(g) /\ f = Unread(g)
  <2>1. PICK k \in changed : /\ k \in DOMAIN old \cup DOMAIN new
                             /\ \E policy \in PolicyFor(k) : f \in Classify(Change(k), policy)
    BY <1>2, InTheEnd DEF Answers
  <2>2. k \in Held("old") \cup Held("new")
    BY <2>1, EndSays
  <2>3. k.kind # ""
    BY <2>2, Standing, SideOfObject
  <2>4. f.key = k
    BY <2>1, FindingOf, EndSays
  <2> QED BY <2>1, <2>2, <2>3, <2>4
<1> QED BY <1>1, <1>2

\* What was looked at has all its findings among those returned.
LEMMA TouchedIsAnswered ==
    ASSUME IInv, Returned, NEW k \in changed, k \in Held("old") \cup Held("new")
    PROVE  \E policy \in PolicyFor(k) : Classify(Change(k), policy) \subseteq Said(k)
<1>1. PICK policy \in PolicyFor(k) : Classify(Change(k), policy) \subseteq findings
  BY InTheEnd, EndSays DEF Answers
<1>2. \A f \in Classify(Change(k), policy) : f.key = k
  BY FindingOf, EndSays
<1> QED BY <1>1, <1>2 DEF Said

-----------------------------------------------------------------------------
(* The properties. *)

\* Types of the call's state: sorted listings, identities that the indexes
\* are filed under, rules and verdicts.
THEOREM Types == Spec => []TypeOK
<1>1. IInv => TypeOK
  <2> SUFFICES ASSUME IInv PROVE TypeOK
    OBVIOUS
  <2>1. DOMAIN changeset = Files /\ \A f \in Files : changeset[f].status \in Statuses
    BY ChangesetsAssumption DEF IInv
  <2>2. CASE phase \in {"handed", "failed"}
    <3>1. Rest /\ handed \in SetToSeqs(Files) /\ 1 \in 1 .. NumFiles + 1
      BY <2>2, ManifestsAssumption DEF IInv
    <3>2. DOMAIN NothingIndexed = {}
      BY DEF NothingIndexed
    <3> HIDE DEF NothingIndexed
    <3> QED BY <2>1, <2>2, <3>1, <3>2 DEF Rest, TypeOK
  <2>3. CASE phase \in {"reading", "returned"}
    <3>1. Reads /\ Seen \subseteq Files
      BY <2>3, ListingIsWhole DEF IInv, Reads, Seen
    <3>2. ASSUME NEW side \in {"old", "new"}, NEW index, IndexOf(changeset, Seen, side, index),
                 NEW k \in DOMAIN index
          PROVE  /\ Key(index[k].doc) = k /\ index[k].file \in Files /\ k.kind \notin {"", Blank, Malformed}
                 /\ k \in Held(side)
      <4>1. /\ index[k].file \in Files /\ changeset[index[k].file].yaml /\ k \in Keys(changeset[index[k].file][side])
            /\ index[k].doc = LastOf(changeset[index[k].file][side], k)
        BY <3>1, <3>2 DEF IndexOf, Holds
      <4>2. WellFormed(changeset[index[k].file][side])
        BY <4>1, FileIs DEF IInv
      <4>3. k \in Held(side)
        BY <4>1 DEF Held
      <4> QED BY <4>1, <4>2, <4>3, SideOfObject
    <3>3. \A k : (\E f \in Seen : Touches(f, k)) => k \in Held("old") \cup Held("new")
      BY <3>1 DEF Touches, Held
    <3>4. changed \subseteq Held("old") \cup Held("new")
      <4>1. CASE phase = "reading"
        BY <3>3, <4>1 DEF IInv, Gathers
      <4>2. CASE phase = "returned"
        <5>1. DOMAIN old \subseteq Held("old")
          BY <3>1, <3>2 DEF Reads
        <5> QED BY <3>3, <4>2, <5>1 DEF IInv, Answers
      <4> QED BY <2>3, <4>1, <4>2
    <3>5. ASSUME NEW f \in findings
          PROVE  /\ f.rule \in 1 .. 15 /\ f.file \in Files
                 /\ f.rev \in {"REVERSIBLE", "COSTLY", "UNKNOWN", "IRREVERSIBLE"}
      <4>1. CASE \E g \in Files : f = Unread(g)
        BY <4>1 DEF Unread
      <4>2. CASE ~\E g \in Files : f = Unread(g)
        <5>1. Returned
          BY <2>3, <3>1, <4>2 DEF IInv, Gathers, Returned
        <5>2. PICK k, policy : f \in Classify(Change(k), policy) /\ k \in Held("old") \cup Held("new")
          BY <4>2, <5>1, FindingIs
        <5>3. /\ k \in Held("old") => Stands("old", k).file \in Files
              /\ k \in Held("new") => Stands("new", k).file \in Files
          BY <5>1, Standing
        <5>4. f.file = IF Stands("new", k) # Absent THEN Stands("new", k).file ELSE Stands("old", k).file
          BY <5>1, <5>2, FindingOf, EndSays
        <5>5. f.file \in Files
          BY <5>1, <5>2, <5>3, <5>4, EndSays
        <5> QED BY <5>2, <5>5, FindingOf
      <4> QED BY <4>1, <4>2
    <3>6. \A index \in {old, new} : \A k \in DOMAIN index :
              Key(index[k].doc) = k /\ index[k].file \in Files /\ k.kind \notin {"", Blank, Malformed}
      BY <3>1, <3>2 DEF Reads
    <3> QED BY <2>1, <3>1, <3>4, <3>5, <3>6 DEF IInv, Reads, TypeOK
  <2> QED BY <2>2, <2>3 DEF IInv
<1> QED BY <1>1, Invariant, PTL

\* Nothing goes unanswered: a manifest to deploy or delete that cannot be read
\* is UNKNOWN, and an object that is not the same on both sides has a finding,
\* whether it was edited, moved and edited, dropped from a file or deleted with
\* one.
THEOREM Unanswered == Spec => []NothingUnanswered
<1>1. IInv => NothingUnanswered
  <2> SUFFICES ASSUME IInv, Returned PROVE NothingUnanswered
    BY DEF NothingUnanswered
  <2>1. \A f \in Files : Illegible(f) => Unread(f) \in findings
    BY InTheEnd DEF Answers
  <2>2. ASSUME NEW k \in Held("old") \cup Held("new"), Altered(k)
        PROVE  Said(k) # {}
    <3>1. k \in changed
      BY <2>2, DifferenceIsTouched DEF Altered
    <3> QED BY <3>1, TouchedIsAnswered, AlwaysAnswered
  <2> QED BY <2>1, <2>2 DEF NothingUnanswered
<1> QED BY <1>1, Invariant, PTL

\* A moved object is neither new nor removed, whatever the order of the two
\* files: the one index has it before the other is asked.
THEOREM Moved == Spec => []MovedIsNotNew
<1>1. IInv => MovedIsNotNew
  <2> SUFFICES ASSUME IInv, Returned, NEW f \in findings
               PROVE  /\ f.rule = 13 => f.key \notin Held("old")
                      /\ f.rule \in {3, 6, 9} => f.key \notin Held("new")
    BY DEF MovedIsNotNew
  <2>1. CASE \E g \in Files : f = Unread(g)
    BY <2>1 DEF Unread
  <2>2. CASE ~\E g \in Files : f = Unread(g)
    <3>1. PICK k, policy : f.key = k /\ f \in Classify(Change(k), policy)
      BY <2>2, FindingIs
    <3>2. /\ f.rule = 13 => Stands("old", k) = Absent
          /\ f.rule \in {3, 6, 9} => Stands("new", k) = Absent
      BY <3>1, FindingOf, EndSays DEF Added, Removed
    <3> QED BY <3>1, <3>2, EndSays
  <2> QED BY <2>1, <2>2
<1> QED BY <1>1, Invariant, PTL

\* A ConfigMap or a Secret that goes is reported as dangling exactly if a
\* workload that stays still names it, touched or not.
THEOREM Dangling == Spec => []DanglingIsReported
<1>1. IInv => DanglingIsReported
  <2> SUFFICES ASSUME IInv, Returned, NEW k \in Held("old") \ Held("new"), k.kind \in {"ConfigMap", "Secret"}
               PROVE  (\E f \in Said(k) : f.rule = 9) <=>
                      \E w \in Held("new") : w.kind \in Workloads /\ w.ns = k.ns
                         /\ References(Stands("new", w).doc.body, <<k.kind, k.name>>)
    BY DEF DanglingIsReported
  <2> DEFINE named == \E w \in Held("new") : w.kind \in Workloads /\ w.ns = k.ns
                         /\ References(Stands("new", w).doc.body, <<k.kind, k.name>>)
  <2>1. named <=> Referents(k) # {}
    <3>1. DOMAIN new = Held("new") /\ \A w \in Held("new") : new[w] = Stands("new", w)
      BY InTheEnd, IndexStands DEF In
    <3> QED BY <3>1 DEF Referents
  <2>2. k \in changed /\ Removed(Change(k)) /\ Change(k).key = k
    BY EndSays DEF Removed
  <2>3. ConfigRemoved(Change(k)) # {} <=> named
    BY <2>1, <2>2 DEF ConfigRemoved, If
  <2> HIDE DEF named
  <2>4. ASSUME named PROVE \E f \in Said(k) : f.rule = 9
    <3>1. PICK policy \in PolicyFor(k) : Classify(Change(k), policy) \subseteq Said(k)
      BY <2>2, TouchedIsAnswered
    <3>2. ConfigRemoved(Change(k)) \subseteq Classify(Change(k), policy)
      BY <2>2 DEF Classify, Recognized
    <3>3. \A f \in ConfigRemoved(Change(k)) : f.rule = 9
      BY DEF ConfigRemoved, If, Find
    <3> QED BY <2>3, <2>4, <3>1, <3>2, <3>3
  <2>5. ASSUME NEW f \in Said(k), f.rule = 9 PROVE named
    <3>1. f \in findings /\ f.key = k /\ ~\E g \in Files : f = Unread(g)
      BY <2>5 DEF Said, Unread
    <3>2. PICK policy : f \in Classify(Change(k), policy)
      BY <3>1, FindingIs
    <3> QED BY <2>3, <2>5, <3>2, FindingOf
  <2> QED BY <2>4, <2>5 DEF named
<1> QED BY <1>1, Invariant, PTL

\* A manifest that is the same on both sides says nothing of its own, unless
\* it is unreadable, or shares an object with another that changed.
THEOREM Silence == Spec => []ContextIsSilent
<1>1. IInv => ContextIsSilent
  <2> SUFFICES ASSUME IInv, Returned, \A f \in Files : Untouched(f) => ~Fails(changeset[f].new),
                      NEW f \in findings, Untouched(f.file)
               PROVE  f.key # NoKey /\ ~Lone(f.key)
    BY DEF ContextIsSilent
  <2>1. ASSUME NEW g \in Files, Illegible(g), f = Unread(g)
        PROVE  FALSE
    <3>1. f.file = g
      BY <2>1 DEF Unread
    <3> QED BY <2>1, <3>1 DEF Illegible, Untouched
  <2>2. PICK k \in changed : /\ k \in Held("old") \cup Held("new") /\ k.kind # "" /\ f.key = k
                             /\ \E policy \in PolicyFor(k) : f \in Classify(Change(k), policy)
    BY <2>1, FindingIs
  <2>3. f.key # NoKey
    <3>1. NoKey.kind = ""
      BY DEF NoKey
    <3> QED BY <2>2, <3>1
  <2>4. f.file = IF k \in Held("new") THEN Stands("new", k).file ELSE Stands("old", k).file
    <3>1. PICK policy : f \in Classify(Change(k), policy)
      BY <2>2
    <3>2. f.file = IF Change(k).is # Absent THEN Change(k).is.file ELSE Change(k).was.file
      BY <3>1, FindingOf
    <3>3. Change(k).is = Stands("new", k) /\ Change(k).was = Stands("old", k)
      BY EndSays
    <3> QED BY <3>2, <3>3, EndSays
  <2>5. f.file \in Holders("old", k) /\ f.file \in Holders("new", k)
    <3>1. f.file \in Holders("old", k) \/ f.file \in Holders("new", k)
      BY <2>2, <2>4, Standing
    <3> QED BY <3>1 DEF Holders, Untouched
  <2>6. PICK h \in Files : Touches(h, k)
    BY <2>2, <2>5, EndSays
  <2>7. h # f.file
    BY <2>6 DEF Touches, Untouched, IsContext
  <2>8. h \in Holders("old", k) \/ h \in Holders("new", k)
    BY <2>6 DEF Touches, Holders
  <2>9. ~Lone(k)
    BY <2>5, <2>7, <2>8, LoneHolder
  <2> QED BY <2>2, <2>3, <2>9
<1> QED BY <1>1, Invariant, PTL

-----------------------------------------------------------------------------
(* What is lost. *)

Shrunk(c) == Shrinks(Before(c).storage, After(c).storage)

\* The four ways in which the rules call a change IRREVERSIBLE.
Lost(c, policy) ==
    \/ Removed(c) /\ c.key.kind = Claim /\ policy # "Retain"
    \/ Removed(c) /\ c.key.kind \in {"Namespace", "CustomResourceDefinition"}
    \/ Kept(c) /\ c.key.kind = Claim /\ (Differs(c, "class") \/ Shrunk(c))
    \/ /\ Kept(c) /\ c.key.kind \in Workloads
       /\ Differs(c, "selector") \/ (c.key.kind = "StatefulSet" /\ Differs(c, "claims"))

Irreversible(fs) == \E f \in fs : f.rev = "IRREVERSIBLE"

LEMMA IrreversibleSets ==
    /\ ~Irreversible({})
    /\ \A S, T : Irreversible(S \cup T) <=> Irreversible(S) \/ Irreversible(T)
    /\ \A g : Irreversible({g}) <=> g.rev = "IRREVERSIBLE"
BY DEF Irreversible

LEMMA FoundRev == \A n, rev, c, on : Find(n, rev, c, on).rev = rev
BY DEF Find

LEMMA ClaimIrreversible ==
    ASSUME NEW c, NEW policy
    PROVE  Irreversible(ClaimRules(c, policy)) <=>
              \/ Removed(c) /\ c.key.kind = Claim /\ policy # "Retain"
              \/ Kept(c) /\ c.key.kind = Claim /\ (Differs(c, "class") \/ Shrunk(c))
<1>1. Irreversible(ClaimRemoved(c, policy)) <=> Removed(c) /\ c.key.kind = Claim /\ policy # "Retain"
  BY IrreversibleSets, FoundRev DEF ClaimRemoved, If
<1>2. Irreversible(ClaimShrunk(c)) <=> Shrunk(c)
  <2> DEFINE was == Before(c).storage
             is  == After(c).storage
  <2>1. CASE Unreadable(was) \/ Unreadable(is)
    <3>1. ClaimShrunk(c) = {Find(14, "UNKNOWN", c, <<"storage">>)}
      BY <2>1 DEF ClaimShrunk
    <3> QED BY <2>1, <3>1, IrreversibleSets, FoundRev DEF Shrunk, Shrinks
  <2>2. CASE ~(Unreadable(was) \/ Unreadable(is))
    <3>1. ClaimShrunk(c) = If(NoQuantity \notin {was, is} /\ Size(is) < Size(was), Find(4, "IRREVERSIBLE", c, << >>))
      BY <2>2 DEF ClaimShrunk
    <3>2. Shrunk(c) <=> NoQuantity \notin {was, is} /\ Size(is) < Size(was)
      BY <2>2 DEF Shrunk, Shrinks, Size
    <3> HIDE DEF was, is
    <3> QED BY <3>1, <3>2, IrreversibleSets, FoundRev DEF If
  <2> QED BY <2>1, <2>2
<1>3. Irreversible(If(Differs(c, "class"), Find(5, "IRREVERSIBLE", c, << >>))) <=> Differs(c, "class")
  BY IrreversibleSets, FoundRev DEF If
<1>4. CASE Kept(c) /\ c.key.kind = Claim
  <2>1. ClaimRules(c, policy) = ClaimRemoved(c, policy) \cup (ClaimShrunk(c)
                                    \cup If(Differs(c, "class"), Find(5, "IRREVERSIBLE", c, << >>)))
    BY <1>4 DEF ClaimRules
  <2> QED BY <1>1, <1>2, <1>3, <1>4, <2>1 DEF Irreversible
<1>5. CASE ~(Kept(c) /\ c.key.kind = Claim)
  <2>1. ClaimRules(c, policy) = ClaimRemoved(c, policy)
    BY <1>5 DEF ClaimRules
  <2> QED BY <1>1, <1>5, <2>1
<1> QED BY <1>4, <1>5

LEMMA WorkloadIrreversible ==
    ASSUME NEW c
    PROVE  Irreversible(WorkloadRules(c)) <=>
              /\ Kept(c) /\ c.key.kind \in Workloads
              /\ Differs(c, "selector") \/ (c.key.kind = "StatefulSet" /\ Differs(c, "claims"))
<1>1. Irreversible(ImmutableRules(c)) <=>
          Differs(c, "selector") \/ (c.key.kind = "StatefulSet" /\ Differs(c, "claims"))
  <2>1. Irreversible(If(c.key.kind = "StatefulSet" /\ Differs(c, "claims"), Find(1, "IRREVERSIBLE", c, << >>)))
          <=> c.key.kind = "StatefulSet" /\ Differs(c, "claims")
    BY IrreversibleSets, FoundRev DEF If
  <2>2. Irreversible(If(Differs(c, "selector"), Find(2, "IRREVERSIBLE", c, << >>))) <=> Differs(c, "selector")
    BY IrreversibleSets, FoundRev DEF If
  <2> QED BY <2>1, <2>2, IrreversibleSets DEF ImmutableRules
<1> DEFINE harmless == ImageNotPinned(c) \cup If(Added(c), Find(13, "REVERSIBLE", c, << >>))
           kept == ImmutableRules(c) \cup RecreateStrategy(c) \cup ProbeRemoved(c)
                       \cup TuningChanged(c) \cup ImageChangedPinned(c)
<1>2. ~Irreversible(harmless)
  <2>1. ~Irreversible(ImageNotPinned(c))
    BY DEF Irreversible, ImageNotPinned, Find
  <2>2. ~Irreversible(If(Added(c), Find(13, "REVERSIBLE", c, << >>)))
    BY DEF Irreversible, If, Find
  <2> QED BY <2>1, <2>2, IrreversibleSets
<1>3. Irreversible(kept) <=> Irreversible(ImmutableRules(c))
  <2>1. ~Irreversible(RecreateStrategy(c))
    BY DEF Irreversible, RecreateStrategy, If, Find
  <2>2. ~Irreversible(ProbeRemoved(c))
    BY DEF Irreversible, ProbeRemoved, Find
  <2>3. ~Irreversible(TuningChanged(c))
    BY DEF Irreversible, TuningChanged, Find
  <2>4. ~Irreversible(ImageChangedPinned(c))
    BY DEF Irreversible, ImageChangedPinned, Find
  <2> QED BY <2>1, <2>2, <2>3, <2>4 DEF Irreversible
<1>4. CASE c.key.kind \notin Workloads \/ c.is = Absent
  <2>1. WorkloadRules(c) = {}
    BY <1>4 DEF WorkloadRules
  <2> QED BY <1>4, <2>1, IrreversibleSets DEF Kept
<1>5. CASE c.key.kind \in Workloads /\ c.is # Absent /\ Kept(c)
  <2>1. WorkloadRules(c) = harmless \cup kept
    BY <1>5 DEF WorkloadRules
  <2> HIDE DEF harmless, kept
  <2> QED BY <1>1, <1>2, <1>3, <1>5, <2>1, IrreversibleSets
<1>6. CASE c.key.kind \in Workloads /\ c.is # Absent /\ ~Kept(c)
  <2>1. WorkloadRules(c) = harmless
    BY <1>6 DEF WorkloadRules
  <2> HIDE DEF harmless
  <2> QED BY <1>2, <1>6, <2>1
<1> QED BY <1>4, <1>5, <1>6

LEMMA IrreversibleIsLost ==
    ASSUME NEW c, NEW policy
    PROVE  Irreversible(Classify(c, policy)) <=> Lost(c, policy)
<1> DEFINE spoken == ClaimRules(c, policy) \cup WorkloadRules(c) \cup ContainersRemoved(c)
                         \cup ServiceChanged(c) \cup ConfigRemoved(c)
<1>1. Irreversible(ContainersRemoved(c)) <=>
          Removed(c) /\ c.key.kind \in {"Namespace", "CustomResourceDefinition"}
  BY IrreversibleSets, FoundRev DEF ContainersRemoved, If
<1>2. ~Irreversible(ServiceChanged(c)) /\ ~Irreversible(ConfigRemoved(c))
  BY DEF Irreversible, ServiceChanged, ConfigRemoved, If, Find
<1>3. Irreversible(spoken) <=> Lost(c, policy)
  <2>1. Irreversible(spoken) <=> \/ Irreversible(ClaimRules(c, policy)) \/ Irreversible(WorkloadRules(c))
                                 \/ Irreversible(ContainersRemoved(c))
    BY <1>2 DEF Irreversible
  <2> HIDE DEF spoken
  <2> QED BY <1>1, <2>1, ClaimIrreversible, WorkloadIrreversible DEF Lost
<1>4. c.key.kind \notin Recognized => ~Lost(c, policy)
  BY DEF Lost, Recognized
<1>5. ~Irreversible({Find(14, "UNKNOWN", c, << >>)}) /\ ~Irreversible({})
  BY IrreversibleSets, FoundRev
<1>6. Classify(c, policy) = IF c.key.kind \notin Recognized \/ spoken = {}
                            THEN {Find(14, "UNKNOWN", c, << >>)} ELSE spoken
  BY DEF Classify
<1> HIDE DEF spoken
<1> QED BY <1>3, <1>4, <1>5, <1>6

\* No size is smaller than itself.
LEMMA NotSmallerThanItself ==
    ASSUME NEW q, q.number \in Int
    PROVE  ~Shrinks(q, q)
<1> SUFFICES ASSUME Shrinks(q, q) PROVE FALSE
  OBVIOUS
<1>1. q # NoQuantity /\ ~Unreadable(q) /\ q.number * Multiplier[q.suffix] < q.number * Multiplier[q.suffix]
  BY DEF Shrinks
<1>2. \A suffix \in DOMAIN Multiplier : Multiplier[suffix] \in Int
  BY SMT DEF Multiplier
<1>3. Multiplier[q.suffix] \in Int
  BY <1>1, <1>2 DEF Unreadable
<1>4. \A x, y \in Int : ~(x * y < x * y)
  OBVIOUS
<1> QED BY <1>1, <1>3, <1>4

\* The claim that stands in a manifest asks for a number.
LEMMA ClaimAsks ==
    ASSUME IInv, Returned, NEW k \in Held("old"), k.kind = Claim
    PROVE  Stands("old", k).doc.body.storage.number \in Int
<1> DEFINE f == Stands("old", k).file
           text == changeset[f].old
<1>1. f \in Files /\ k \in Keys(text) /\ Stands("old", k).doc = LastOf(text, k) /\ WellFormed(text)
  BY Standing
<1>2. PICK i \in DOMAIN text : LastOf(text, k) = text[i] /\ text[i].kind = Claim
  <2>1. PICK i \in DOMAIN text : LastOf(text, k) = text[i] /\ Key(text[i]) = k
    BY <1>1, LastIsAmong
  <2>2. text[i].kind = k.kind
    BY <2>1 DEF Key
  <2> QED BY <2>1, <2>2
<1> QED BY <1>1, <1>2, QuantitiesAssumption DEF IInv

\* What looking a class up may answer, in the words of the property.
LEMMA ReclaimsAndPolicies ==
    ASSUME IInv, Returned, NEW name, NEW p \in Reclaims(name)
    PROVE  /\ p = "Retain" => "Retain" \in PoliciesOf(name)
           /\ p # "Retain" => "Retain" \notin PoliciesOf(name) \/ PoliciesOf(name) # {"Retain"}
<1> DEFINE classes == {k \in Held("old") : k.kind = "StorageClass" /\ k.name = name}
<1>1. DOMAIN old = Held("old") /\ \A k \in Held("old") : old[k] = Stands("old", k)
  BY InTheEnd, IndexStands DEF In
<1>2. p \in IF name = "" \/ classes = {} THEN {"unresolved"}
            ELSE {IF Stands("old", k).doc.body.reclaim = "" THEN "unresolved"
                  ELSE Stands("old", k).doc.body.reclaim : k \in classes}
  <2>1. {k \in DOMAIN old : k.kind = "StorageClass" /\ k.name = name} = classes
    BY <1>1
  <2>2. \A k \in classes : old[k] = Stands("old", k)
    BY <1>1
  <2> HIDE DEF classes
  <2> QED BY <2>1, <2>2 DEF Reclaims
<1>3. PoliciesOf(name) = IF name = "" THEN {} ELSE {Stands("old", k).doc.body.reclaim : k \in classes}
  BY DEF PoliciesOf
<1> HIDE DEF classes
<1>4. CASE name = "" \/ classes = {}
  BY <1>2, <1>3, <1>4
<1>5. CASE ~(name = "" \/ classes = {})
  <2>1. PICK k \in classes : p = IF Stands("old", k).doc.body.reclaim = "" THEN "unresolved"
                                 ELSE Stands("old", k).doc.body.reclaim
    BY <1>2, <1>5
  <2>2. Stands("old", k).doc.body.reclaim \in PoliciesOf(name)
    BY <1>3, <1>5, <2>1
  <2> QED BY <2>1, <2>2
<1> QED BY <1>4, <1>5

\* What is called IRREVERSIBLE is destroyed, and the other way round: the rules
\* see through units, files and whatever else changed about the object. Only
\* between two storage classes of one name the answer is left open.
THEOREM Irreversibility == Spec => []IrreversibleMeansDestroyed
<1>1. IInv => IrreversibleMeansDestroyed
  <2> SUFFICES ASSUME IInv, Returned, NEW k \in Held("old"), Lone(k)
               PROVE  /\ Destroyed(k) => Irreversible(Said(k))
                      /\ Irreversible(Said(k)) => Destroyed(k) \/ Ambiguous(k)
    BY DEF IrreversibleMeansDestroyed, Irreversible
  <2> DEFINE c == Change(k)
  <2>1. c = [key |-> k, was |-> Stands("old", k), is |-> Stands("new", k)]
    BY EndSays
  <2>2. /\ Removed(c) <=> k \notin Held("new")
        /\ Kept(c) <=> k \in Held("new")
        /\ c.key = k /\ Before(c) = Stands("old", k).doc.body /\ After(c) = Stands("new", k).doc.body
    BY <2>1, EndSays DEF Removed, Kept, Before, After
  <2>3. k.kind = Claim => PolicyFor(k) = Reclaims(Stands("old", k).doc.body.class)
    BY InTheEnd, IndexStands DEF PolicyFor, In
  <2> HIDE DEF c
  <2>4. ASSUME NEW policy \in PolicyFor(k)
        PROVE  /\ Destroyed(k) => Lost(c, policy)
               /\ Lost(c, policy) => Destroyed(k) \/ Ambiguous(k)
    <3>1. CASE k \notin Held("new")
      <4>1. k.kind = Claim =>
               /\ policy = "Retain" => "Retain" \in PoliciesOf(Stands("old", k).doc.body.class)
               /\ policy # "Retain" => \/ "Retain" \notin PoliciesOf(Stands("old", k).doc.body.class)
                                       \/ PoliciesOf(Stands("old", k).doc.body.class) # {"Retain"}
        BY <2>3, ReclaimsAndPolicies
      <4> QED BY <2>2, <3>1, <4>1 DEF Destroyed, Lost, Ambiguous, Claim
    <3>2. CASE k \in Held("new")
      <4>1. /\ Differs(c, "class") <=> Stands("old", k).doc.body.class # Stands("new", k).doc.body.class
            /\ Differs(c, "selector") <=> Stands("old", k).doc.body.selector # Stands("new", k).doc.body.selector
            /\ Differs(c, "claims") <=> Stands("old", k).doc.body.claims # Stands("new", k).doc.body.claims
            /\ Shrunk(c) <=> Shrinks(Stands("old", k).doc.body.storage, Stands("new", k).doc.body.storage)
        BY <2>2 DEF Differs, Shrunk
      <4> QED BY <2>2, <3>2, <4>1 DEF Destroyed, Lost, Workloads
    <3> QED BY <3>1, <3>2
  <2>5. ASSUME Destroyed(k) PROVE Irreversible(Said(k))
    <3>1. k \in changed
      <4>1. CASE k \notin Held("new")
        BY <4>1, EndSays
      <4>2. CASE k \in Held("new")
        <5>1. Stands("old", k).doc # Stands("new", k).doc
          BY <2>5, <4>2, ClaimAsks, NotSmallerThanItself DEF Destroyed
        <5> QED BY <5>1, DifferenceIsTouched
      <4> QED BY <4>1, <4>2
    <3>2. PICK policy \in PolicyFor(k) : Classify(c, policy) \subseteq Said(k)
      BY <3>1, TouchedIsAnswered DEF c
    <3> QED BY <2>4, <2>5, <3>2, IrreversibleIsLost DEF Irreversible
  <2>6. ASSUME NEW f \in Said(k), f.rev = "IRREVERSIBLE" PROVE Destroyed(k) \/ Ambiguous(k)
    <3>1. f \in findings /\ f.key = k /\ ~\E g \in Files : f = Unread(g)
      BY <2>6 DEF Said, Unread
    <3>2. PICK policy \in PolicyFor(k) : f \in Classify(c, policy)
      BY <3>1, FindingIs DEF c
    <3> QED BY <2>4, <2>6, <3>2, IrreversibleIsLost DEF Irreversible
  <2> QED BY <2>5, <2>6 DEF Irreversible
<1> QED BY <1>1, Invariant, PTL

-----------------------------------------------------------------------------
(* What the engine is owed. *)

\* What the changeset says of a manifest or an object does not change.
LEMMA ChangesetStays ==
    ASSUME UNCHANGED changeset
    PROVE  /\ \A f : Illegible(f)' <=> Illegible(f)
           /\ Held("old")' = Held("old") /\ Held("new")' = Held("new")
           /\ \A k : Altered(k)' <=> Altered(k)
<1>1. \A f : Illegible(f)' <=> Illegible(f)
  BY DEF Illegible
<1>2. \A side : Held(side)' = Held(side)
  BY DEF Held
<1>3. \A side, k : Holders(side, k)' = Holders(side, k)
  BY DEF Holders
<1>4. \A side, k : Stands(side, k)' = Stands(side, k)
  BY <1>3 DEF Stands
<1>5. \A k : Lone(k)' <=> Lone(k)
  BY <1>3 DEF Lone
<1>6. \A k : Altered(k)' <=> Altered(k)
  BY <1>4, <1>5 DEF Altered
<1> QED BY <1>1, <1>2, <1>6

\* Before the return nothing is told, and only manifests are owed for.
LEMMA BeforeReturn ==
    ASSUME ~Returned
    PROVE  /\ Told = {}
           /\ Owed = {[at |-> [file |-> order[i], key |-> NoKey], legible |-> FALSE] :
                         i \in {j \in 1 .. at - 1 : Illegible(order[j])}}
BY DEF Told, Owed

LEMMA EarlierPlaces ==
    ASSUME NEW m \in Int, NEW n \in Int, m <= n, NEW j \in 1 .. m - 1
    PROVE  j \in 1 .. n - 1
OBVIOUS

\* Reading on forgets nothing.
LEMMA OwedGrows ==
    ASSUME UNCHANGED <<changeset, order>>, at \in Int, at' \in Int, at <= at', ~Returned
    PROVE  Owed \subseteq Owed'
<1>1. \A j \in 1 .. at - 1 : j \in 1 .. at' - 1
  BY EarlierPlaces
<1>2. \A j : Illegible(order[j]) => Illegible(order[j])'
  BY ChangesetStays
<1> QED BY <1>1, <1>2, BeforeReturn DEF Owed

\* What is told is told of manifests.
LEMMA ToldOfManifests ==
    ASSUME IInv, Returned, NEW f \in findings
    PROVE  f.file \in Files /\ changeset[f.file].yaml
<1>1. CASE \E g \in Files : Illegible(g) /\ f = Unread(g)
  BY <1>1 DEF Unread, Illegible
<1>2. CASE ~\E g \in Files : Illegible(g) /\ f = Unread(g)
  <2>1. PICK k, policy : f \in Classify(Change(k), policy) /\ k \in Held("old") \cup Held("new")
    BY <1>2, FindingIs
  <2>2. f.file = IF Stands("new", k) # Absent THEN Stands("new", k).file ELSE Stands("old", k).file
    BY <2>1, FindingOf, EndSays
  <2>3. \E side \in {"old", "new"} : f.file \in Holders(side, k)
    BY <2>1, <2>2, EndSays
  <2> QED BY <2>3 DEF Holders
<1> QED BY <1>1, <1>2

\* All that is owed in the end has been told.
LEMMA OwedIsTold ==
    ASSUME IInv, Returned, NEW o \in Owed
    PROVE  Contract!Answered(o, Told)
<1>1. CASE \E i \in {j \in 1 .. at - 1 : Illegible(order[j])} :
             o = [at |-> [file |-> order[i], key |-> NoKey], legible |-> FALSE]
  <2>1. PICK i \in 1 .. at - 1 : Illegible(order[i]) /\ o = [at |-> [file |-> order[i], key |-> NoKey], legible |-> FALSE]
    BY <1>1
  <2>2. order[i] \in Files
    BY <2>1, ListingIsWhole, ManifestsAssumption DEF IInv, Reads, Answers, Returned, Files
  <2>3. Unread(order[i]) \in findings
    BY <2>1, <2>2, InTheEnd DEF Answers
  <2>4. LET u == Unread(order[i]) IN u.file = order[i] /\ u.key = NoKey /\ u.rev = "UNKNOWN"
    BY DEF Unread
  <2>5. [file |-> order[i], at |-> [file |-> order[i], key |-> NoKey], rev |-> "UNKNOWN"] \in Told
    BY <2>3, <2>4 DEF Told
  <2> QED BY <2>1, <2>5 DEF Contract!Answered
<1>2. CASE \E k \in Held("old") \cup Held("new") :
             Altered(k) /\ o = [at |-> [file |-> 0, key |-> k], legible |-> TRUE]
  <2>1. PICK k \in Held("old") \cup Held("new") :
             Altered(k) /\ o = [at |-> [file |-> 0, key |-> k], legible |-> TRUE]
    BY <1>2
  <2>2. PICK f \in findings : f.key = k
    BY <2>1, DifferenceIsTouched, TouchedIsAnswered, AlwaysAnswered DEF Said, Altered
  <2>3. k # NoKey
    <3>1. k.kind # ""
      BY <2>1, Standing, SideOfObject
    <3>2. NoKey.kind = ""
      BY DEF NoKey
    <3> QED BY <3>1, <3>2
  <2>4. [file |-> f.file, at |-> [file |-> 0, key |-> k], rev |-> f.rev] \in Told
    BY <2>2, <2>3 DEF Told
  <2> QED BY <2>1, <2>4 DEF Contract!Answered
<1> QED BY <1>1, <1>2 DEF Owed

\* What a call that returned gave its caller.
Settled ==
    Returned => /\ \A o \in Owed : Contract!Answered(o, Told)
                /\ \A f \in findings : f.file \in Files /\ changeset[f.file].yaml

\* One step of the call is a step of the contract, or one nobody sees.
LEMMA StepKeepsContract ==
    ASSUME IInv, Settled', [Next]_vars
    PROVE  [Contract!Next]_(Contract!vars)
<1>1. ASSUME changeset' = changeset
      PROVE  {f \in Files : changeset[f].yaml}' = {f \in Files : changeset[f].yaml}
  BY <1>1
<1>2. CASE Sort
  <2>1. at = 1 /\ at' = 1 /\ phase = "handed" /\ phase' = "reading" /\ UNCHANGED changeset
    BY <1>2 DEF Sort, IInv, Rest
  <2>2. Owed = {} /\ Told = {} /\ Told' = {}
    BY <2>1, BeforeReturn DEF Returned, Told
  <2>3. Contract!Look
    BY <1>1, <2>1, <2>2 DEF Contract!Look
  <2> QED BY <2>3 DEF Contract!Next
<1>3. CASE PassOver \/ Unparsable \/ ReadKept \/ ReadRemoved
  <2>1. /\ at' = at + 1 /\ phase = "reading" /\ phase' = "reading"
        /\ UNCHANGED <<changeset, order>> /\ at \in Int
    BY <1>3 DEF PassOver, Unparsable, ReadKept, ReadRemoved, Reading, IInv, Reads
  <2>2. ~Returned /\ ~Returned'
    BY <2>1 DEF Returned
  <2>3. Told = {} /\ Told' = {}
    BY <2>2 DEF Told
  <2>4. Owed \subseteq Owed'
    BY <2>1, <2>2, OwedGrows
  <2>5. Contract!Look
    BY <1>1, <2>1, <2>3, <2>4 DEF Contract!Look
  <2> QED BY <2>5 DEF Contract!Next
<1>4. CASE Return
  <2>1. phase = "reading" /\ phase' = "returned" /\ UNCHANGED <<changeset, order, at>> /\ at \in Int
    BY <1>4 DEF Return, IInv, Reads
  <2>2. ~Returned /\ Returned'
    BY <2>1 DEF Returned
  <2>3. Owed \subseteq Owed'
    BY <2>1, <2>2, OwedGrows
  <2>4. (\A o \in Owed : Contract!Answered(o, Told))'
    BY <2>2 DEF Settled
  <2>5. (\A f \in findings : f.file \in Files /\ changeset[f.file].yaml)'
    BY <2>2 DEF Settled
  <2>6. (\A t \in Told : t.file \in {f \in Files : changeset[f].yaml})'
    BY <2>5 DEF Told
  <2>7. Contract!Report
    BY <1>1, <2>1, <2>3, <2>4, <2>6 DEF Contract!Report, Contract!Answered, Contract!Within
  <2> QED BY <2>7 DEF Contract!Next
<1>5. CASE Cancelled
  <2>1. phase \in {"handed", "reading"} /\ phase' = "failed" /\ at' = 1 /\ UNCHANGED changeset
    BY <1>5 DEF Cancelled
  <2>2. Owed' = {} /\ Told' = {}
    BY <2>1 DEF Owed, Told, Returned
  <2>3. Contract!Fail
    BY <1>1, <2>1, <2>2 DEF Contract!Fail
  <2> QED BY <2>3 DEF Contract!Next
<1>6. CASE UNCHANGED vars
  <2>1. UNCHANGED <<changeset, order, at, findings, phase>>
    BY <1>6 DEF vars
  <2>2. Returned' <=> Returned
    BY <2>1 DEF Returned
  <2>3. Told' = Told
    BY <2>1, <2>2 DEF Told
  <2>4. Owed' = Owed
    BY <2>1, <2>2, ChangesetStays DEF Owed
  <2> QED BY <1>1, <2>1, <2>3, <2>4 DEF Contract!vars
<1> QED BY <1>2, <1>3, <1>4, <1>5, <1>6 DEF Next

\* The analyzer keeps the contract of analyzer.go for every changeset: a nil
\* error never comes with an incomplete result, nor an error with findings.
THEOREM ContractKept == Spec => ImplementsAnalyzer
<1>1. Init => Contract!Init
  <2> SUFFICES ASSUME Init PROVE Contract!Init
    OBVIOUS
  <2>1. at = 1 /\ phase = "handed" /\ ~Returned
    BY DEF Init, Returned
  <2> QED BY <2>1, BeforeReturn DEF Contract!Init
<1>2. IInv => Settled
  BY OwedIsTold, ToldOfManifests DEF Settled
<1>3. IInv /\ Settled' /\ [Next]_vars => [Contract!Next]_(Contract!vars)
  BY StepKeepsContract
<1> QED BY <1>1, <1>2, <1>3, Invariant, PTL DEF Spec, ImplementsAnalyzer, Contract!Spec
=============================================================================
