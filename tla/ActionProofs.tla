---------------------------- MODULE ActionProofs ----------------------------
(***************************************************************************)
(* What the exit code and the outputs of the action say, for any number of *)
(* uses in a job, any inputs and any conclusions of their analyses.        *)
(***************************************************************************)
EXTENDS Action, TLAPS

-----------------------------------------------------------------------------
(* The inductive invariant. *)

\* Between the gating run and the end of its step, rc is how that run exited,
\* and unless that is 2 the file it was asked for is its own.
GateRan ==
    pc \in {"produced", "read", "report"} =>
        \/ rc = 2
        \/ /\ use <= Uses /\ rc = ExitOf(verdict[use], asked[use].gate)
           /\ files[asked[use].format] = Whole(use)

\* A certificate on disk was written by this use, by one before it or before
\* the job, and the verdict that is about to be reported is a certificate.
FilesArePast ==
    /\ \A f \in Disk : files[f].kind = "whole" => files[f].use \in 0 .. use
    /\ pc = "report" => files["stage json"].kind = "whole"

\* A verdict copied from the file of a run that got through is that run's.
CopyIsOwn ==
    pc \in {"read", "report"} /\ rc # 2 =>
        (asked[use].format = "json" => files["stage json"] = Whole(use))

\* A certificate from before the job enters the stage only by a use that ends
\* broken.
StageTells ==
    files["stage json"] = Whole(0) =>
        \/ \E b \in 1 .. Uses : b <= use /\ exit[b] = 2
        \/ pc \in {"read", "report"} /\ rc = 2

\* A use has an exit code only once its step ended.
EndsOnce ==
    \A u \in 1 .. Uses :
        /\ u > use => exit[u] = NoExit
        /\ u = use /\ pc # "comment" => exit[u] = NoExit

Claims ==
    /\ GreenMeansRead /\ RedMeansBelowGate /\ NoVerdictNeverGreen
    /\ ExitsOnItsOwnCertificate

IInv ==
    /\ TypeOK /\ GateRan /\ FilesArePast /\ CopyIsOwn /\ StageTells /\ EndsOnce
    /\ Claims

-----------------------------------------------------------------------------
(* Exit codes. *)

\* What each exit code of a gated check says of its certificate.
LEMMA ExitCodes ==
    ASSUME NEW v \in Assessments, NEW g \in Measured
    PROVE  /\ ExitOf(v, g) \in 0 .. 2
           /\ ExitOf(v, g) = 0 => /\ v.coverage = "FULL"
                                  /\ v.outcome = "NO_CANDIDATES" \/ Rank(v.effective) >= Rank(g)
           /\ ExitOf(v, g) = 1 => /\ v.coverage = "FULL" /\ v.outcome = "ANALYZED"
                                  /\ Rank(v.effective) < Rank(g)
<1>1. v.outcome \in Outcomes /\ v.coverage \in Coverages
  BY DEF Assessments
<1>2. Rank(v.effective) \in Int /\ Rank(g) \in Int
  BY DEF Rank
<1>3. CASE v.outcome = "UNSUPPORTED_CONTENT" \/ v.coverage = "PARTIAL"
  BY <1>3 DEF ExitOf
<1>4. CASE v.coverage = "FULL" /\ v.outcome = "NO_CANDIDATES"
  BY <1>4 DEF ExitOf
<1>5. CASE v.coverage = "FULL" /\ v.outcome = "ANALYZED"
  BY <1>2, <1>5 DEF ExitOf
<1> QED BY <1>1, <1>3, <1>4, <1>5 DEF Outcomes, Coverages

\* The current use has inputs, a threshold and a conclusion.
LEMMA Current ==
    ASSUME TypeOK, use <= Uses
    PROVE  /\ use \in 1 .. Uses
           /\ Now \in Inputs /\ Now = asked[use]
           /\ Now.format \in Workspace /\ Now.format \in Disk /\ Now.gate \in Measured
           /\ verdict[use] \in Assessments
           /\ Whole(use) \in File /\ Nothing \in File /\ Partial \in File
<1>1. use \in 1 .. Uses
  <2>1. Uses \in Nat
    BY ActionAssumption
  <2>2. use \in 1 .. Uses + 1
    BY DEF TypeOK
  <2> QED BY <2>1, <2>2
<1>2. Now \in Inputs /\ Now = asked[use]
  BY <1>1 DEF TypeOK, Now
<1>3. Now.format \in Workspace /\ Now.format \in Disk /\ Now.gate \in Measured
  BY <1>2, ActionAssumption DEF Inputs, Disk
<1>4. verdict[use] \in Assessments
  <2>1. verdict[use] \in Conclusions
    BY <1>1 DEF TypeOK
  <2> QED BY <2>1, ActionAssumption
<1>5. Whole(use) \in File /\ Nothing \in File /\ Partial \in File
  BY <1>1 DEF File
<1> QED BY <1>1, <1>2, <1>3, <1>4, <1>5

\* Ending the current use keeps what is said of the uses that ended before.
LEMMA KeepsOwn ==
    ASSUME IInv, use <= Uses, pc # "comment", UNCHANGED <<use, asked, verdict, files>>,
           \A u \in 1 .. Uses : u # use => exit'[u] = exit[u] /\ out'[u] = out[u],
           NEW u \in 1 .. Uses, u # use, exit'[u] \in {0, 1}
    PROVE  /\ use = u => files'[asked[u].format] = Whole(u)
           /\ \E w \in 0 .. u :
                 /\ Says(out'[u], verdict[w])
                 /\ u = 1 \/ asked[u].format = "json" => w = u
                 /\ w = 0 => \E b \in 1 .. u - 1 : exit'[b] = 2
<1>1. exit[u] \in {0, 1} /\ out'[u] = out[u]
  OBVIOUS
<1>2. PICK w \in 0 .. u :
        /\ Says(out[u], verdict[w])
        /\ u = 1 \/ asked[u].format = "json" => w = u
        /\ w = 0 => \E b \in 1 .. u - 1 : exit[b] = 2
  BY <1>1 DEF IInv, Claims, ExitsOnItsOwnCertificate
<1>3. ASSUME NEW b \in 1 .. u - 1, exit[b] = 2
      PROVE  exit'[b] = 2
  <2>1. Uses \in Nat /\ use \in 1 .. Uses
    BY Current, ActionAssumption DEF IInv
  <2>2. b \in 1 .. Uses
    BY <2>1
  <2>3. b # use
    <3>1. exit[use] = NoExit
      BY <2>1 DEF IInv, EndsOnce
    <3> QED BY <1>3, <3>1 DEF NoExit
  <2> QED BY <1>3, <2>2, <2>3
<1>4. w = 0 => \E b \in 1 .. u - 1 : exit'[b] = 2
  BY <1>2, <1>3
<1> QED BY <1>1, <1>2, <1>4

\* Ending a step with an exit code other than 0 and 1 keeps what is said of
\* all the others.
LEMMA EndsBroken ==
    ASSUME IInv, use <= Uses, pc # "comment", End(2), UNCHANGED <<use, asked, verdict, rc, files, posted>>,
           out' = out \/ Emit(Unreadable)
    PROVE  IInv'
<1>1. use \in 1 .. Uses /\ TypeOK
  BY Current DEF IInv
<1>2. /\ exit' = [exit EXCEPT ![use] = 2] /\ pc' = "comment"
      /\ exit'[use] = 2 /\ \A u \in 1 .. Uses : u # use => exit'[u] = exit[u]
  BY <1>1 DEF End, TypeOK
<1>3. /\ out' \in [1 .. Uses -> Output]
      /\ \A u \in 1 .. Uses : u # use => out'[u] = out[u]
      /\ out'[use] = out[use] \/ out'[use].gate = "FAIL"
  <2>1. out \in [1 .. Uses -> Output]
    BY <1>1 DEF TypeOK
  <2>2. Unreadable \in Output /\ Unreadable.gate = "FAIL"
    BY DEF Unreadable, Output, Grades, Measured, GateStatuses
  <2>3. CASE out' = out
    BY <1>1, <2>1, <2>3
  <2>4. CASE out' = [out EXCEPT ![use] = Unreadable]
    BY <1>1, <2>1, <2>2, <2>4
  <2> QED BY <2>3, <2>4 DEF Emit
<1>4. TypeOK'
  <2>1. exit' \in [1 .. Uses -> 0 .. NoExit]
    <3>1. exit \in [1 .. Uses -> 0 .. NoExit] /\ 2 \in 0 .. NoExit
      BY <1>1 DEF TypeOK, NoExit
    <3> QED BY <1>1, <1>2, <3>1
  <2>2. pc' \in {"inputs", "produced", "read", "report", "comment"}
    BY <1>2
  <2> QED BY <1>1, <1>3, <2>1, <2>2 DEF TypeOK
<1>5. GateRan' /\ FilesArePast' /\ CopyIsOwn' /\ StageTells'
  <2>1. GateRan' /\ FilesArePast' /\ CopyIsOwn'
    BY <1>2 DEF IInv, GateRan, FilesArePast, CopyIsOwn
  <2>2. use <= use /\ exit'[use] = 2
    BY <1>1, <1>2
  <2>3. StageTells'
    BY <1>1, <2>2 DEF StageTells
  <2> QED BY <2>1, <2>3
<1>6. EndsOnce'
  <2> SUFFICES ASSUME NEW u \in 1 .. Uses
               PROVE  /\ u > use => exit'[u] = NoExit
                      /\ u = use /\ pc' # "comment" => exit'[u] = NoExit
    BY DEF EndsOnce
  <2>1. u > use => u # use
    BY <1>1
  <2> QED BY <1>2, <2>1 DEF IInv, EndsOnce
<1>7. GreenMeansRead' /\ RedMeansBelowGate'
  BY <1>2 DEF IInv, Claims, GreenMeansRead, RedMeansBelowGate
<1>8. \A u \in 1 .. Uses : exit'[u] \in {0, 1} => u # use /\ exit[u] \in {0, 1} /\ out'[u] = out[u]
  BY <1>2, <1>3
<1>9. NoVerdictNeverGreen'
  BY <1>8 DEF IInv, Claims, NoVerdictNeverGreen
<1>10. ExitsOnItsOwnCertificate'
  BY <1>1, <1>2, <1>3, <1>8, KeepsOwn DEF ExitsOnItsOwnCertificate
<1> QED BY <1>4, <1>5, <1>6, <1>7, <1>9, <1>10 DEF IInv, Claims

\* A step that neither ends a use nor says anything keeps what is said.
LEMMA SaysNothing ==
    ASSUME IInv, UNCHANGED <<use, asked, verdict, out, exit>>, pc # "comment", pc' # "comment"
    PROVE  Claims' /\ EndsOnce'
<1>1. EndsOnce'
  BY DEF IInv, EndsOnce
<1>2. GreenMeansRead' /\ RedMeansBelowGate' /\ NoVerdictNeverGreen'
  BY DEF IInv, Claims, GreenMeansRead, RedMeansBelowGate, NoVerdictNeverGreen
<1>3. \A u \in 1 .. Uses : u = use => ~(exit[u] \in {0, 1})
  <2>1. NoExit # 0 /\ NoExit # 1
    BY DEF NoExit
  <2> QED BY <2>1 DEF IInv, EndsOnce
<1>4. ExitsOnItsOwnCertificate'
  BY <1>3 DEF IInv, Claims, ExitsOnItsOwnCertificate
<1> QED BY <1>1, <1>2, <1>4 DEF Claims

\* Writing one file of the current use.
LEMMA Writes ==
    ASSUME IInv, use <= Uses, NEW f \in Disk, NEW left \in {Nothing, Partial, Whole(use)},
           files' = [files EXCEPT ![f] = left], use' = use
    PROVE  /\ files' \in [Disk -> File]
           /\ \A g \in Disk : files'[g].kind = "whole" => files'[g].use \in 0 .. use
           /\ \A g \in Disk : g # f => files'[g] = files[g]
           /\ files'[f] = left
<1>1. TypeOK /\ use \in 1 .. Uses
  BY Current DEF IInv
<1>2. left \in File /\ (left.kind = "whole" => left.use \in 0 .. use)
  BY <1>1 DEF File, Nothing, Partial, Whole
<1> QED BY <1>1, <1>2 DEF IInv, TypeOK, FilesArePast

-----------------------------------------------------------------------------
(* The invariant is inductive. *)

LEMMA InitIInv == Init => IInv
<1> SUFFICES ASSUME Init PROVE IInv
  OBVIOUS
<1>0. /\ files \in [Disk -> {Nothing, Partial, Whole(0)}]
      /\ \A f \in Disk : f \notin Workspace => files[f] = Nothing
  <2>1. PICK held \in Checkouts :
          files = [f \in Disk |-> IF f \in Workspace THEN held[f] ELSE Nothing]
    BY DEF Init
  <2>2. held \in [Workspace -> {Nothing, Partial, Whole(0)}]
    BY ActionAssumption
  <2> QED BY <2>1, <2>2
<1>1. TypeOK
  <2>1. use \in 1 .. Uses + 1
    <3>1. Uses \in Nat
      BY ActionAssumption
    <3> QED BY <3>1 DEF Init
  <2>2. Nothing \in File /\ NoOutputs \in Output
    BY DEF File, NoOutputs, Output
  <2>3. /\ pc \in {"inputs", "produced", "read", "report", "comment"}
        /\ asked \in [1 .. Uses -> Inputs] /\ rc \in 0 .. 2
    BY DEF Init, Inputs
  <2>4. exit \in [1 .. Uses -> 0 .. NoExit]
    BY DEF Init, NoExit
  <2>5. posted \in File /\ out \in [1 .. Uses -> Output]
    BY <2>2 DEF Init
  <2>6. files \in [Disk -> File]
    <3>1. Partial \in File /\ Whole(0) \in File
      BY ActionAssumption DEF File
    <3> QED BY <1>0, <2>2, <3>1
  <2>7. verdict \in [0 .. Uses -> Documents] /\ \A u \in 1 .. Uses : verdict[u] \in Conclusions
    <3>1. PICK e \in Earlier, c \in [1 .. Uses -> Conclusions] :
            verdict = [u \in 0 .. Uses |-> IF u = 0 THEN e ELSE c[u]]
      BY DEF Init, Verdicts
    <3>2. Earlier \subseteq Documents /\ Conclusions \subseteq Documents /\ Uses \in Nat
      BY ActionAssumption DEF Assessments, Documents
    <3>3. \A u \in 0 .. Uses : u # 0 => u \in 1 .. Uses
      BY <3>2
    <3>4. \A u \in 1 .. Uses : u \in 0 .. Uses /\ u # 0
      BY <3>2
    <3>5. \A u \in 1 .. Uses : verdict[u] \in Conclusions
      BY <3>1, <3>4
    <3>6. verdict \in [0 .. Uses -> Documents]
      BY <3>1, <3>2, <3>3
    <3> QED BY <3>5, <3>6
  <2> QED BY <2>1, <2>3, <2>4, <2>5, <2>6, <2>7 DEF TypeOK
<1>2. GateRan /\ FilesArePast /\ CopyIsOwn /\ StageTells
  <2>1. pc = "inputs" /\ use = 1
    BY DEF Init
  <2>2. \A f \in Disk : files[f].use = 0
    BY <1>0 DEF Nothing, Partial, Whole
  <2>3. files["stage json"] = Nothing /\ Nothing # Whole(0)
    BY <1>0 DEF Disk, Workspace, Nothing, Whole
  <2>4. 0 \in 0 .. 1
    OBVIOUS
  <2> QED BY <2>1, <2>2, <2>3, <2>4 DEF GateRan, FilesArePast, CopyIsOwn, StageTells
<1>3. \A u \in 1 .. Uses : exit[u] = 3
  BY DEF Init, NoExit
<1>4. EndsOnce
  BY DEF Init, EndsOnce
<1>5. Claims
  <2>1. \A u \in 1 .. Uses : exit[u] # 0 /\ exit[u] # 1
    <3> SUFFICES ASSUME NEW u \in 1 .. Uses PROVE exit[u] # 0 /\ exit[u] # 1
      OBVIOUS
    <3>1. exit[u] = 3
      BY <1>3
    <3> QED BY <3>1
  <2> QED BY <2>1 DEF Claims, GreenMeansRead, RedMeansBelowGate, NoVerdictNeverGreen,
                      ExitsOnItsOwnCertificate
<1> QED BY <1>1, <1>2, <1>4, <1>5 DEF IInv

LEMMA AnalyzeKeeps == IInv /\ Analyze => IInv'
<1> SUFFICES ASSUME IInv, Analyze PROVE IInv'
  OBVIOUS
<1> DEFINE code == ExitOf(verdict[use], Now.gate)
<1>1. /\ TypeOK /\ use <= Uses /\ pc = "inputs" /\ pc' = "produced"
      /\ Run(Now.format, code)
      /\ UNCHANGED <<use, asked, verdict, out, exit, posted>>
  BY DEF IInv, Analyze, At
<1>2. /\ Now.format \in Disk /\ Now.format \in Workspace /\ Now.format # "stage json"
      /\ code \in 0 .. 2
  <2>1. Now.format \in Disk /\ Now.format \in Workspace /\ code \in 0 .. 2
    BY <1>1, Current, ExitCodes
  <2>2. "stage json" \notin Workspace
    BY DEF Workspace
  <2> QED BY <2>1, <2>2
<1>3. /\ rc' \in {code, 2}
      /\ files' = files \/ \E left \in {Nothing, Partial, Whole(use)} :
                              files' = [files EXCEPT ![Now.format] = left]
      /\ rc' # 2 => rc' = code /\ files' = [files EXCEPT ![Now.format] = Whole(use)]
  BY <1>1 DEF Run
<1>4. /\ files' \in [Disk -> File]
      /\ \A g \in Disk : files'[g].kind = "whole" => files'[g].use \in 0 .. use
  <2>1. CASE files' = files
    BY <1>1, <2>1 DEF IInv, TypeOK, FilesArePast
  <2>2. ASSUME NEW left \in {Nothing, Partial, Whole(use)},
               files' = [files EXCEPT ![Now.format] = left]
        PROVE  /\ files' \in [Disk -> File]
               /\ \A g \in Disk : files'[g].kind = "whole" => files'[g].use \in 0 .. use
    BY <1>1, <1>2, <2>2, Writes
  <2> QED BY <1>3, <2>1, <2>2
<1>5. GateRan'
  <2>1. rc' # 2 => files'[Now.format] = Whole(use)
    BY <1>1, <1>2, <1>3 DEF TypeOK
  <2> QED BY <1>1, <1>3, <2>1 DEF GateRan, Now
<1> HIDE DEF code
<1>6. TypeOK' /\ FilesArePast'
  <2>1. rc' \in 0 .. 2 /\ pc' \in {"inputs", "produced", "read", "report", "comment"}
    <3>1. rc' \in {code, 2} /\ code \in 0 .. 2
      BY <1>2, <1>3
    <3>2. rc' \in 0 .. 2
      BY <3>1
    <3> QED BY <1>1, <3>2
  <2>2. TypeOK'
    BY <1>1, <1>4, <2>1 DEF TypeOK
  <2>3. FilesArePast'
    BY <1>1, <1>4 DEF FilesArePast
  <2> QED BY <2>2, <2>3
<1>7. CopyIsOwn' /\ StageTells'
  <2>1. files'["stage json"] = files["stage json"]
    <3>1. "stage json" \in Disk
      BY DEF Disk
    <3> QED BY <1>1, <1>2, <1>3, <3>1 DEF TypeOK
  <2> QED BY <1>1, <2>1 DEF IInv, CopyIsOwn, StageTells
<1> QED BY <1>1, <1>5, <1>6, <1>7, SaysNothing DEF IInv

LEMMA ReadBackKeeps == IInv /\ ReadBack => IInv'
<1> SUFFICES ASSUME IInv, ReadBack PROVE IInv'
  OBVIOUS
<1>1. /\ TypeOK /\ use <= Uses /\ pc = "produced" /\ pc' = "read"
      /\ UNCHANGED <<use, asked, verdict, rc, out, exit, posted>>
  BY DEF IInv, ReadBack, At, Rerun
<1>2. \/ Now.format # "json" /\ files' = files
      \/ Now.format = "json" /\ files' = [files EXCEPT !["stage json"] = files["json"]]
      \/ /\ Now.format # "json"
         /\ \E left \in {Nothing, Partial, Whole(use)} :
               files' = [files EXCEPT !["stage json"] = left]
  BY DEF ReadBack, Rerun
<1>3. /\ files' \in [Disk -> File]
      /\ \A g \in Disk : files'[g].kind = "whole" => files'[g].use \in 0 .. use
  <2>1. CASE files' = files
    BY <1>1, <2>1 DEF IInv, TypeOK, FilesArePast
  <2>2. CASE files' = [files EXCEPT !["stage json"] = files["json"]]
    BY <1>1, <2>2 DEF IInv, TypeOK, FilesArePast, Disk, Workspace
  <2>3. ASSUME NEW left \in {Nothing, Partial, Whole(use)},
               files' = [files EXCEPT !["stage json"] = left]
        PROVE  /\ files' \in [Disk -> File]
               /\ \A g \in Disk : files'[g].kind = "whole" => files'[g].use \in 0 .. use
    <3>1. "stage json" \in Disk
      BY DEF Disk
    <3> QED BY <1>1, <2>3, <3>1, Writes
  <2> QED BY <1>2, <2>1, <2>2, <2>3
<1>4. TypeOK' /\ FilesArePast'
  BY <1>1, <1>3 DEF IInv, TypeOK, FilesArePast
<1>5. /\ use \in 1 .. Uses /\ use # 0 /\ Now = asked[use] /\ Now.format \in Disk
      /\ Now.format # "stage json" /\ "stage json" \in Disk /\ files \in [Disk -> File]
  <2>1. Now.format \in Workspace
    BY <1>1, Current
  <2>2. "stage json" \notin Workspace /\ "stage json" \in Disk
    BY DEF Workspace, Disk
  <2>3. use \in 1 .. Uses
    BY <1>1, Current
  <2>4. use # 0
    BY <2>3, ActionAssumption
  <2> QED BY <1>1, <2>1, <2>2, <2>3, <2>4, Current DEF TypeOK
<1>6. GateRan'
  <2>1. files'[Now.format] = files[Now.format]
    BY <1>2, <1>5
  <2> QED BY <1>1, <1>5, <2>1 DEF IInv, GateRan
<1>7. CopyIsOwn'
  <2> SUFFICES ASSUME rc # 2, Now.format = "json"
               PROVE  files'["stage json"] = Whole(use)
    BY <1>1, <1>5 DEF CopyIsOwn
  <2>1. files["json"] = Whole(use)
    BY <1>1, <1>5 DEF IInv, GateRan
  <2> QED BY <1>2, <1>5, <2>1
<1>8. StageTells'
  <2> SUFFICES ASSUME files'["stage json"] = Whole(0)
               PROVE  rc = 2 \/ \E b \in 1 .. Uses : b <= use /\ exit[b] = 2
    BY <1>1 DEF StageTells
  <2>1. Whole(0) # Nothing /\ Whole(0) # Partial /\ Whole(0) # Whole(use)
    <3>1. /\ Whole(0).kind = "whole" /\ Nothing.kind = "nothing" /\ Partial.kind = "partial"
          /\ Whole(0).use = 0 /\ Whole(use).use = use
      BY DEF Whole, Nothing, Partial
    <3> QED BY <1>5, <3>1
  <2>2. CASE files' = files
    BY <1>1, <2>2 DEF IInv, StageTells
  <2>3. CASE Now.format = "json" /\ files' = [files EXCEPT !["stage json"] = files["json"]]
    <3>1. files["json"] = Whole(0)
      BY <1>5, <2>3
    <3> QED BY <1>1, <1>5, <2>1, <2>3, <3>1 DEF IInv, GateRan
  <2>4. ASSUME NEW left \in {Nothing, Partial, Whole(use)},
               files' = [files EXCEPT !["stage json"] = left]
        PROVE  FALSE
    BY <1>5, <2>1, <2>4
  <2> QED BY <1>2, <2>2, <2>3, <2>4
<1> QED BY <1>1, <1>4, <1>6, <1>7, <1>8, SaysNothing DEF IInv

LEMMA RenderKeeps == IInv /\ Render => IInv'
<1> SUFFICES ASSUME IInv, Render PROVE IInv'
  OBVIOUS
<1>1. /\ TypeOK /\ use <= Uses /\ pc = "read" /\ pc' = "report"
      /\ files["stage json"].kind = "whole"
      /\ UNCHANGED <<use, asked, verdict, rc, out, exit, posted>>
  BY DEF IInv, Render, At, Rerun
<1>2. \/ files' = files
      \/ \E left \in {Nothing, Partial, Whole(use)} :
            files' = [files EXCEPT !["stage markdown"] = left]
  BY DEF Render, Rerun
<1>3. /\ files' \in [Disk -> File]
      /\ \A g \in Disk : g # "stage markdown" => files'[g] = files[g]
      /\ \A g \in Disk : files'[g].kind = "whole" => files'[g].use \in 0 .. use
  <2>1. CASE files' = files
    BY <1>1, <2>1 DEF IInv, TypeOK, FilesArePast
  <2>2. ASSUME NEW left \in {Nothing, Partial, Whole(use)},
               files' = [files EXCEPT !["stage markdown"] = left]
        PROVE  /\ files' \in [Disk -> File]
               /\ \A g \in Disk : g # "stage markdown" => files'[g] = files[g]
               /\ \A g \in Disk : files'[g].kind = "whole" => files'[g].use \in 0 .. use
    <3>1. "stage markdown" \in Disk
      BY DEF Disk
    <3> QED BY <1>1, <2>2, <3>1, Writes
  <2> QED BY <1>2, <2>1, <2>2
<1>4. /\ Now = asked[use]
      /\ files'["stage json"] = files["stage json"] /\ files'[Now.format] = files[Now.format]
  <2>1. "stage json" \in Disk /\ "stage markdown" \notin Workspace
    BY DEF Disk, Workspace
  <2>2. Now.format \in Workspace /\ Now.format \in Disk /\ Now = asked[use]
    BY <1>1, Current
  <2> QED BY <1>3, <2>1, <2>2
<1>5. TypeOK' /\ FilesArePast' /\ GateRan' /\ CopyIsOwn' /\ StageTells'
  BY <1>1, <1>3, <1>4 DEF IInv, TypeOK, FilesArePast, GateRan, CopyIsOwn, StageTells
<1> QED BY <1>1, <1>5, SaysNothing DEF IInv

LEMMA ReportKeeps == IInv /\ Report => IInv'
<1> SUFFICES ASSUME IInv, Report PROVE IInv'
  OBVIOUS
<1> DEFINE w == files["stage json"].use
           told == Outputs(verdict[w])
<1>1. /\ TypeOK /\ use <= Uses /\ pc = "report" /\ pc' = "comment"
      /\ exit' = [exit EXCEPT ![use] = Code] /\ out' = [out EXCEPT ![use] = told]
      /\ UNCHANGED <<use, asked, verdict, rc, files, posted>>
  BY DEF IInv, Report, At, End, Emit
<1>2. /\ use \in 1 .. Uses /\ Now.failOnGate \in BOOLEAN /\ Now = asked[use]
      /\ Now.gate \in Measured /\ verdict[use] \in Assessments
  <2>1. Now \in Inputs /\ Now = asked[use]
    BY <1>1, Current
  <2>2. Now.failOnGate \in BOOLEAN
    BY <2>1 DEF Inputs
  <2> QED BY <1>1, <2>1, <2>2, Current
<1>3. w \in 0 .. use /\ w \in 0 .. Uses /\ files["stage json"] = Whole(w)
  <2>1. "stage json" \in Disk
    BY DEF Disk
  <2>2. w \in 0 .. use
    BY <1>1, <2>1 DEF IInv, FilesArePast
  <2>3. Uses \in Nat
    BY ActionAssumption
  <2>4. files["stage json"] = Whole(w)
    <3>1. files["stage json"] \in File
      BY <1>1, <2>1 DEF TypeOK
    <3>2. files["stage json"].kind = "whole"
      BY <1>1 DEF IInv, FilesArePast
    <3>3. PICK n \in 0 .. Uses : files["stage json"] = Whole(n)
      <4>1. Nothing.kind = "nothing" /\ Partial.kind = "partial"
        BY DEF Nothing, Partial
      <4>2. files["stage json"] \notin {Nothing, Partial}
        BY <3>2, <4>1
      <4> QED BY <3>1, <4>2 DEF File
    <3>4. Whole(n).use = n
      BY DEF Whole
    <3> QED BY <3>3, <3>4
  <2> HIDE DEF w, told
  <2>5. w \in 0 .. Uses
    BY <1>2, <2>2, <2>3
  <2> QED BY <2>2, <2>4, <2>5
<1>4. verdict[w] \in Documents
  BY <1>1, <1>3 DEF TypeOK
<1>5. told \in Output /\ Says(told, verdict[w]) /\ told.comment # ""
  <2>1. verdict[w].grade \in Grades /\ verdict[w].gate \in GateStatuses
    BY <1>4 DEF Documents
  <2> QED BY <2>1 DEF Outputs, Output, Says
<1> HIDE DEF told, w
<1>6. /\ rc \in 0 .. 2 /\ Code \in 0 .. 2
      /\ Code = 0 => rc = 0 \/ (rc = 1 /\ ~Now.failOnGate)
      /\ Code = 1 => rc = 1 /\ Now.failOnGate
  BY <1>1, <1>2 DEF TypeOK, Code
<1>7. rc # 2 => rc = ExitOf(verdict[use], Now.gate)
  BY <1>1, <1>2 DEF IInv, GateRan
<1>8. /\ exit'[use] = Code /\ out'[use] = told
      /\ \A u \in 1 .. Uses : u # use => exit'[u] = exit[u] /\ out'[u] = out[u]
  BY <1>1, <1>2 DEF TypeOK
<1>9. TypeOK'
  <2>1. exit' \in [1 .. Uses -> 0 .. NoExit]
    <3>1. exit \in [1 .. Uses -> 0 .. NoExit] /\ Code \in 0 .. NoExit
      BY <1>1, <1>6 DEF TypeOK, NoExit
    <3> QED BY <1>1, <3>1
  <2>2. out' \in [1 .. Uses -> Output]
    <3>1. out \in [1 .. Uses -> Output]
      BY <1>1 DEF TypeOK
    <3> QED BY <1>1, <1>5, <3>1
  <2>3. pc' \in {"inputs", "produced", "read", "report", "comment"}
    BY <1>1
  <2> QED BY <1>1, <2>1, <2>2, <2>3 DEF TypeOK
<1>10. GateRan' /\ FilesArePast' /\ CopyIsOwn' /\ StageTells' /\ EndsOnce'
  <2>1. GateRan' /\ FilesArePast' /\ CopyIsOwn'
    BY <1>1 DEF IInv, GateRan, FilesArePast, CopyIsOwn
  <2>2. StageTells'
    <3>1. rc = 2 => exit'[use] = 2 /\ use <= use
      BY <1>1, <1>2, <1>8 DEF Code
    <3>2. ASSUME NEW b \in 1 .. Uses, b <= use, exit[b] = 2
          PROVE  exit'[b] = 2
      <4>1. b # use
        <5>1. exit[use] = NoExit
          BY <1>1, <1>2 DEF IInv, EndsOnce
        <5> QED BY <3>2, <5>1 DEF NoExit
      <4> QED BY <1>8, <3>2, <4>1
    <3> SUFFICES ASSUME files["stage json"] = Whole(0)
                 PROVE  \E b \in 1 .. Uses : b <= use /\ exit'[b] = 2
      BY <1>1 DEF StageTells
    <3> QED BY <1>1, <1>2, <3>1, <3>2 DEF IInv, StageTells
  <2>3. EndsOnce'
    <3> SUFFICES ASSUME NEW u \in 1 .. Uses, u > use
                 PROVE  exit'[u] = NoExit
      BY <1>1 DEF EndsOnce
    <3>1. u # use
      BY <1>2
    <3> QED BY <1>8, <3>1 DEF IInv, EndsOnce
  <2> QED BY <2>1, <2>2, <2>3
<1>11. GreenMeansRead'
  <2>1. Code = 0 => /\ verdict[use].coverage = "FULL"
                    /\ asked[use].failOnGate =>
                          \/ verdict[use].outcome = "NO_CANDIDATES"
                          \/ Rank(verdict[use].effective) >= Rank(asked[use].gate)
    BY <1>2, <1>6, <1>7, ExitCodes
  <2> QED BY <1>1, <1>8, <2>1 DEF IInv, Claims, GreenMeansRead
<1>12. RedMeansBelowGate'
  <2>1. Code = 1 => /\ asked[use].failOnGate
                    /\ verdict[use].coverage = "FULL" /\ verdict[use].outcome = "ANALYZED"
                    /\ Rank(verdict[use].effective) < Rank(asked[use].gate)
    BY <1>2, <1>6, <1>7, ExitCodes
  <2> QED BY <1>1, <1>8, <2>1 DEF IInv, Claims, RedMeansBelowGate
<1>13. ExitsOnItsOwnCertificate'
  <2> SUFFICES ASSUME NEW u \in 1 .. Uses, exit'[u] \in {0, 1}
               PROVE  /\ use = u => files'[asked[u].format] = Whole(u)
                      /\ \E n \in 0 .. u :
                            /\ Says(out'[u], verdict[n])
                            /\ u = 1 \/ asked[u].format = "json" => n = u
                            /\ n = 0 => \E b \in 1 .. u - 1 : exit'[b] = 2
    BY <1>1 DEF ExitsOnItsOwnCertificate
  <2>1. CASE u # use
    BY <1>1, <1>8, <2>1, KeepsOwn
  <2>2. CASE u = use
    <3>1. rc # 2
      BY <1>6, <1>8, <2>2 DEF Code
    <3>2. files'[asked[u].format] = Whole(u)
      BY <1>1, <2>2, <3>1 DEF IInv, GateRan
    <3>3. asked[u].format = "json" => w = u
      <4>1. asked[u].format = "json" => Whole(w) = Whole(u)
        BY <1>1, <1>3, <2>2, <3>1 DEF IInv, CopyIsOwn
      <4> QED BY <4>1 DEF Whole
    <3>4. w = 0 => \E b \in 1 .. u - 1 : exit[b] = 2 /\ exit'[b] = 2
      <4> SUFFICES ASSUME w = 0
                   PROVE  \E b \in 1 .. u - 1 : exit[b] = 2 /\ exit'[b] = 2
        OBVIOUS
      <4>1. PICK b \in 1 .. Uses : b <= use /\ exit[b] = 2
        BY <1>3, <3>1 DEF IInv, StageTells
      <4>2. b # use
        <5>1. exit[use] = NoExit
          BY <1>1, <1>2 DEF IInv, EndsOnce
        <5> QED BY <4>1, <5>1 DEF NoExit
      <4>3. b \in 1 .. u - 1
        BY <1>2, <2>2, <4>1, <4>2
      <4> QED BY <1>8, <4>1, <4>2, <4>3
    <3>5. u = 1 => w = u
      <4> SUFFICES ASSUME u = 1 PROVE w = 1
        OBVIOUS
      <4>1. w \in 0 .. 1
        BY <1>3, <2>2
      <4>2. w # 0
        <5>1. 1 .. u - 1 = {}
          OBVIOUS
        <5> QED BY <3>4, <5>1
      <4> QED BY <4>1, <4>2
    <3> QED BY <1>3, <1>5, <1>8, <2>2, <3>2, <3>3, <3>4, <3>5
  <2> QED BY <2>1, <2>2
<1>14. NoVerdictNeverGreen'
  BY <1>5, <1>8 DEF IInv, Claims, NoVerdictNeverGreen
<1> QED BY <1>9, <1>10, <1>11, <1>12, <1>13, <1>14 DEF IInv, Claims

LEMMA CommentKeeps == IInv /\ Comment => IInv'
<1> SUFFICES ASSUME IInv, Comment PROVE IInv'
  OBVIOUS
<1>1. /\ TypeOK /\ use <= Uses /\ pc = "comment" /\ pc' = "inputs" /\ use' = use + 1
      /\ UNCHANGED <<asked, verdict, rc, files, out, exit>>
  BY DEF IInv, Comment, At
<1>2. use \in 1 .. Uses
  BY <1>1, Current
<1>3. posted' \in File
  <2>1. CASE posted' = posted
    BY <1>1, <2>1 DEF TypeOK
  <2>2. CASE out[use].comment # "" /\ posted' = files[out[use].comment]
    <3>1. out[use].comment \in Disk
      <4>1. out[use] \in Output
        BY <1>1, <1>2 DEF TypeOK
      <4> QED BY <2>2, <4>1 DEF Output, Disk, Workspace
    <3> QED BY <1>1, <2>2, <3>1 DEF TypeOK
  <2> QED BY <2>1, <2>2 DEF Comment
<1>4. TypeOK'
  BY <1>1, <1>2, <1>3, ActionAssumption DEF TypeOK
<1>5. FilesArePast' /\ GateRan' /\ CopyIsOwn'
  <2>1. \A n \in 0 .. use : n \in 0 .. use'
    BY <1>1, <1>2
  <2> QED BY <1>1, <2>1 DEF IInv, FilesArePast, GateRan, CopyIsOwn
<1>6. StageTells'
  <2>1. \A b \in 1 .. Uses : b <= use => b <= use'
    BY <1>1, <1>2
  <2> QED BY <1>1, <2>1 DEF IInv, StageTells
<1>7. \A u \in 1 .. Uses : u >= use' => exit[u] = NoExit
  <2>1. \A u \in 1 .. Uses : u >= use' => u > use
    BY <1>1, <1>2
  <2> QED BY <2>1 DEF IInv, EndsOnce
<1>8. EndsOnce'
  <2>1. \A u \in 1 .. Uses : u > use' \/ u = use' => u >= use'
    BY <1>1, <1>2
  <2> QED BY <1>1, <1>7, <2>1 DEF EndsOnce
<1>9. Claims'
  <2>1. GreenMeansRead' /\ RedMeansBelowGate' /\ NoVerdictNeverGreen'
    BY <1>1 DEF IInv, Claims, GreenMeansRead, RedMeansBelowGate, NoVerdictNeverGreen
  <2>2. \A u \in 1 .. Uses : use' = u => ~(exit[u] \in {0, 1})
    <3>1. NoExit # 0 /\ NoExit # 1
      BY DEF NoExit
    <3>2. \A u \in 1 .. Uses : use' = u => u >= use'
      OBVIOUS
    <3> QED BY <1>7, <3>1, <3>2
  <2>3. ExitsOnItsOwnCertificate'
    BY <1>1, <2>2 DEF IInv, Claims, ExitsOnItsOwnCertificate
  <2> QED BY <2>1, <2>3 DEF Claims
<1> QED BY <1>4, <1>5, <1>6, <1>8, <1>9 DEF IInv

LEMMA NextIInv == IInv /\ [Next]_vars => IInv'
<1> SUFFICES ASSUME IInv, [Next]_vars PROVE IInv'
  OBVIOUS
<1>1. CASE Refuse
  BY <1>1, EndsBroken DEF Refuse, At
<1>2. CASE Analyze
  BY <1>2, AnalyzeKeeps
<1>3. CASE NoCertificate
  BY <1>3, EndsBroken DEF NoCertificate, At
<1>4. CASE ReadBack
  BY <1>4, ReadBackKeeps
<1>5. CASE NoVerdict
  BY <1>5, EndsBroken DEF NoVerdict, At
<1>6. CASE BadVerdict
  BY <1>6, EndsBroken DEF BadVerdict, At
<1>7. CASE Render
  BY <1>7, RenderKeeps
<1>8. CASE Report
  BY <1>8, ReportKeeps
<1>9. CASE Comment
  BY <1>9, CommentKeeps
<1>10. CASE UNCHANGED vars
  BY <1>10 DEF IInv, TypeOK, GateRan, FilesArePast, CopyIsOwn, StageTells, EndsOnce, Claims,
               GreenMeansRead, RedMeansBelowGate, NoVerdictNeverGreen,
               ExitsOnItsOwnCertificate, vars
<1> QED BY <1>1, <1>2, <1>3, <1>4, <1>5, <1>6, <1>7, <1>8, <1>9, <1>10 DEF Next

LEMMA Invariance == Spec => []IInv
<1> QED BY InitIInv, NextIInv, PTL DEF Spec

-----------------------------------------------------------------------------
(* The theorems. *)

\* Everything the job keeps has its type.
THEOREM TypeCorrect == Spec => []TypeOK
<1>1. IInv => TypeOK
  BY DEF IInv
<1> QED BY <1>1, Invariance, PTL

\* A use that exits 0 read everything it should have, and met its gate unless
\* failing was not asked for: whatever the runs of revctl did.
THEOREM GreenIsRead == Spec => []GreenMeansRead
<1>1. IInv => GreenMeansRead
  BY DEF IInv, Claims
<1> QED BY <1>1, Invariance, PTL

\* Exit 1 means that revctl got through, that everything was listed and read
\* and that the grade compared is below the gate.
THEOREM RedIsBelowGate == Spec => []RedMeansBelowGate
<1>1. IInv => RedMeansBelowGate
  BY DEF IInv, Claims
<1> QED BY <1>1, Invariance, PTL

\* A use that exits 0 or 1 wrote the certificate it was asked for, whatever was
\* on disk when the job began, and reports a certificate from before the job
\* only where an earlier use was broken.
THEOREM ExitIsItsOwn == Spec => []ExitsOnItsOwnCertificate
<1>1. IInv => ExitsOnItsOwnCertificate
  BY DEF IInv, Claims
<1> QED BY <1>1, Invariance, PTL

\* No verdict, no green.
THEOREM NoVerdictIsBroken == Spec => []NoVerdictNeverGreen
<1>1. IInv => NoVerdictNeverGreen
  BY DEF IInv, Claims
<1> QED BY <1>1, Invariance, PTL
=============================================================================
