------------------------------- MODULE Action -------------------------------
(***************************************************************************)
(* The GitHub Action around revctl: one job that uses the action several   *)
(* times, each use running certify.sh and comment.sh against files that    *)
(* outlive it, in a workspace that is a checkout of the pull request and   *)
(* may hold certificates from the start.  revctl check analyzes, writes    *)
(* its certificate and exits with the code of applyGate; the script runs   *)
(* it once for the gate, again to read the verdict back as JSON and again  *)
(* for the comment, and any of these runs may fail before it writes or     *)
(* while it does.                                                          *)
(*                                                                         *)
(* What an analysis concludes is an assessment (Verdict), which is what    *)
(* Certify guarantees of a certificate; git pins both ends of the change,  *)
(* so every run of one use that gets through concludes the same.           *)
(***************************************************************************)
EXTENDS Verdict

CONSTANTS
    Uses,     \* how many times the job uses the action
    Formats,  \* certificate formats a workflow may ask for
    Gates,    \* thresholds a workflow may ask for
    Conclusions, \* what the analyses of its changes may conclude
    Earlier,     \* what certificates from before the job may say
    Checkouts    \* what the workspace may hold when the job begins

VARIABLES
    use,      \* the use whose turn it is
    pc,       \* where its script is
    asked,    \* the inputs of the use: format, gate, fail-on-gate
    verdict,  \* what an analysis of its change concludes; that of use 0 is
              \* what a certificate from before the job says
    rc,       \* how the run that carries the gate exited
    files,    \* certificates on disk
    out,      \* out[u]: the outputs of use u
    exit,     \* exit[u]: how its certify step exited
    posted    \* what the pull request's comment shows

vars == <<use, pc, asked, verdict, rc, files, out, exit, posted>>

\* The requested certificate lives in the workspace, one file per format; the
\* copies made to be read back live in the stage of the job.
Workspace == {"markdown", "json", "sarif"}
Disk == Workspace \cup {"stage json", "stage markdown"}

\* A file is absent or empty (test -s tells neither from the other), holds
\* part of a document, or a certificate: of some use, or, as that of use 0,
\* one committed with the change or left by an earlier job.
Nothing == [kind |-> "nothing", use |-> 0]
Partial == [kind |-> "partial", use |-> 0]
Whole(u) == [kind |-> "whole", use |-> u]

\* A document from before the job may say anything; what this revctl writes is
\* an assessment.
Documents ==
    [grade : Grades, effective : Grades, gate : GateStatuses,
     outcome : Outcomes, coverage : Coverages, broken : BOOLEAN]

ASSUME ActionAssumption ==
    /\ Uses \in Nat
    /\ Formats \subseteq Workspace
    /\ Gates \subseteq Measured
    /\ Conclusions \subseteq Assessments
    /\ Earlier \subseteq Documents
    /\ Checkouts \subseteq [Workspace -> {Nothing, Partial, Whole(0)}]

\* The exit code of a use that has not ended: none of the script's.
NoExit == 3

NoOutputs  == [grade |-> "", gate |-> "", comment |-> ""]
Unreadable == [grade |-> "F", gate |-> "FAIL", comment |-> ""]

Inputs == [format : Formats, gate : Gates, failOnGate : BOOLEAN]

\* What each use concludes, and what the certificate from before says.
Verdicts == {[u \in 0 .. Uses |-> IF u = 0 THEN e ELSE c[u]] :
                e \in Earlier, c \in [1 .. Uses -> Conclusions]}

Init ==
    /\ use = 1
    /\ pc = "inputs"
    /\ asked \in [1 .. Uses -> Inputs]
    /\ verdict \in Verdicts
    /\ rc = 0
    /\ \E held \in Checkouts :
          files = [f \in Disk |-> IF f \in Workspace THEN held[f] ELSE Nothing]
    /\ out = [u \in 1 .. Uses |-> NoOutputs]
    /\ exit = [u \in 1 .. Uses |-> NoExit]
    /\ posted = Nothing

-----------------------------------------------------------------------------
(* revctl check. *)

\* Mutant: coverage is left to the grade.
ExitOfGrade(v, minGrade) ==
    IF v.outcome = "UNSUPPORTED_CONTENT" THEN 2
    ELSE IF v.outcome = "NO_CANDIDATES" \/ Rank(v.effective) >= Rank(minGrade) THEN 0 ELSE 1

\* Mutant: what could not be measured is taken for what measured too low.
ExitOne(v, minGrade) ==
    IF v.outcome = "NO_CANDIDATES" \/ (v.coverage = "FULL" /\ Rank(v.effective) >= Rank(minGrade))
    THEN 0 ELSE 1

\* applyGate, with a gate in force: what was not read is exit 2 before any
\* grade is compared, and a run with nothing to read has nothing to compare.
ExitOf(v, minGrade) ==
    CASE v.outcome = "UNSUPPORTED_CONTENT" \/ v.coverage = "PARTIAL" -> 2
      [] v.coverage = "FULL" /\ v.outcome = "NO_CANDIDATES" -> 0
      [] v.coverage = "FULL" /\ v.outcome = "ANALYZED" ->
           IF Rank(v.effective) >= Rank(minGrade) THEN 0 ELSE 1

\* One run that is to write file f: it gets through and exits with `code`; or
\* it fails before the file is created, leaving whatever was there; or while
\* the certificate is being written.
Run(f, code) ==
    \/ files' = [files EXCEPT ![f] = Whole(use)] /\ rc' = code
    \/ UNCHANGED files /\ rc' = 2
    \/ \E left \in {Nothing, Partial} : files' = [files EXCEPT ![f] = left] /\ rc' = 2

\* A run whose exit code the script throws away.
Rerun(f) ==
    /\ \/ UNCHANGED files
       \/ \E left \in {Nothing, Partial, Whole(use)} : files' = [files EXCEPT ![f] = left]
    /\ UNCHANGED rc

-----------------------------------------------------------------------------
(* certify.sh. *)

Now == asked[use]

\* Where the script of the current use is; a job past its last use is over.
At(where) == use <= Uses /\ pc = where

\* The step ends; what it emitted decides whether the comment step runs.
End(code) ==
    /\ exit' = [exit EXCEPT ![use] = code]
    /\ pc' = "comment"

Emit(outputs) == out' = [out EXCEPT ![use] = outputs]

\* A bad input, no base to compare against, or no jq: nothing is analyzed.
Refuse ==
    /\ At("inputs")
    /\ End(2)
    /\ UNCHANGED <<use, asked, verdict, rc, files, out, posted>>

\* The run that carries the gate.
Analyze ==
    /\ At("inputs")
    /\ Run(Now.format, ExitOf(verdict[use], Now.gate))
    /\ pc' = "produced"
    /\ UNCHANGED <<use, asked, verdict, out, exit, posted>>

\* "A gate must prove it ran."
NoCertificate ==
    /\ At("produced") /\ files[Now.format] = Nothing
    /\ Emit(Unreadable)
    /\ End(2)
    /\ UNCHANGED <<use, asked, verdict, rc, files, posted>>

\* The verdict is read back as JSON, copied or rendered again.
ReadBack ==
    /\ At("produced") /\ files[Now.format] # Nothing
    /\ IF Now.format = "json"
       THEN files' = [files EXCEPT !["stage json"] = files["json"]] /\ UNCHANGED rc
       ELSE Rerun("stage json")
    /\ pc' = "read"
    /\ UNCHANGED <<use, asked, verdict, out, exit, posted>>

\* Mutant: without a readable verdict the exit code of the gate decides.
NoVerdictLetThrough ==
    /\ At("read") /\ files["stage json"] = Nothing
    /\ Emit(Unreadable)
    /\ End(IF rc >= 2 THEN rc ELSE 0)
    /\ UNCHANGED <<use, asked, verdict, rc, files, posted>>

NoVerdict ==
    /\ At("read") /\ files["stage json"] = Nothing
    /\ Emit(Unreadable)
    /\ End(2)
    /\ UNCHANGED <<use, asked, verdict, rc, files, posted>>

\* jq fails on a document that was cut short, and the script with it.
BadVerdict ==
    /\ At("read") /\ files["stage json"] = Partial
    /\ End(2)
    /\ UNCHANGED <<use, asked, verdict, rc, files, out, posted>>

\* The comment is always markdown, rendered again unless it was asked for.
Render ==
    /\ At("read") /\ files["stage json"].kind = "whole"
    /\ IF Now.format = "markdown" THEN UNCHANGED <<files, rc>> ELSE Rerun("stage markdown")
    /\ pc' = "report"
    /\ UNCHANGED <<use, asked, verdict, out, exit, posted>>

\* Mutant: fail-on-gate is asked before whether the analysis completed.
CodeUngated == IF rc # 0 /\ ~Now.failOnGate THEN 0 ELSE rc

\* The code the step exits with.
Code ==
    CASE rc >= 2 -> rc
      [] rc = 1  -> IF Now.failOnGate THEN 1 ELSE 0
      [] rc = 0  -> 0

\* Mutant: the comment is made of the certificate the workflow asked for.
OutputsAsAsked(v) == [grade |-> v.grade, gate |-> v.gate, comment |-> Now.format]

\* What the step says of certificate v.
Outputs(v) ==
    [grade   |-> v.grade,
     gate    |-> v.gate,
     comment |-> IF Now.format = "markdown" THEN "markdown" ELSE "stage markdown"]

Report ==
    /\ At("report")
    /\ Emit(Outputs(verdict[files["stage json"].use]))
    /\ End(Code)
    /\ UNCHANGED <<use, asked, verdict, rc, files, posted>>

-----------------------------------------------------------------------------
(* comment.sh, and the next use of the action. *)

\* The comment step runs whatever the certify step exited with, provided it
\* named a file; it posts the file unless it is empty, or GitHub refuses.
Comment ==
    /\ At("comment")
    /\ \/ /\ out[use].comment # "" /\ files[out[use].comment] # Nothing
          /\ posted' = files[out[use].comment]
       \/ UNCHANGED posted
    /\ pc' = "inputs"
    /\ use' = use + 1
    /\ UNCHANGED <<asked, verdict, rc, files, out, exit>>

Next ==
    \/ Refuse \/ Analyze \/ NoCertificate \/ ReadBack
    \/ NoVerdict \/ BadVerdict \/ Render \/ Report \/ Comment

Spec == Init /\ [][Next]_vars

-----------------------------------------------------------------------------
(* What must hold. *)

File == {Nothing, Partial} \cup {Whole(u) : u \in 0 .. Uses}

Output == [grade : Grades \cup {""}, gate : GateStatuses \cup {""},
           comment : {"", "markdown", "stage markdown"}]

TypeOK ==
    /\ use \in 1 .. Uses + 1
    /\ pc \in {"inputs", "produced", "read", "report", "comment"}
    /\ asked \in [1 .. Uses -> Inputs]
    /\ verdict \in [0 .. Uses -> Documents]
    /\ \A u \in 1 .. Uses : verdict[u] \in Conclusions
    /\ rc \in 0 .. 2
    /\ files \in [Disk -> File]
    /\ out \in [1 .. Uses -> Output]
    /\ exit \in [1 .. Uses -> 0 .. NoExit]
    /\ posted \in File

\* A gate must prove it ran: a use that exits 0 is one whose gating run wrote
\* its own certificate and read every file that may be a migration, and, when
\* failing is asked for, one that met its gate or had nothing to measure.
GreenMeansRead ==
    \A u \in 1 .. Uses : exit[u] = 0 =>
        /\ verdict[u].coverage = "FULL"
        /\ asked[u].failOnGate =>
              \/ verdict[u].outcome = "NO_CANDIDATES"
              \/ Rank(verdict[u].effective) >= Rank(asked[u].gate)

\* Exit 1 is told apart from exit 2: it says that revctl got through, that the
\* change was listed and every file that may be a migration was handed to an
\* analyzer, and that the grade compared is below the gate.  Not that the grade
\* was measured: the F of an analysis that failed exits 1 too, see
\* BrokenNeverPasses.
RedMeansBelowGate ==
    \A u \in 1 .. Uses : exit[u] = 1 =>
        /\ asked[u].failOnGate
        /\ verdict[u].coverage = "FULL" /\ verdict[u].outcome = "ANALYZED"
        /\ Rank(verdict[u].effective) < Rank(asked[u].gate)

\* What certificate v says to whoever reads the outputs.
Says(outputs, v) == outputs.grade = v.grade /\ outputs.gate = v.gate

\* A use that exits 0 or 1 stands on its own certificate, whatever the
\* checkout and the uses before it left on disk.  The file it was asked for is
\* its own, and so are the outputs when they are copied from that file or
\* nothing was read back before.  They may be those of an earlier use where the
\* run that reads the verdict back fails without a trace, but those of a
\* certificate from before the job only where an earlier use was broken.
ExitsOnItsOwnCertificate ==
    \A u \in 1 .. Uses : exit[u] \in {0, 1} =>
        /\ use = u => files[asked[u].format] = Whole(u)
        /\ \E w \in 0 .. u :
              /\ Says(out[u], verdict[w])
              /\ u = 1 \/ asked[u].format = "json" => w = u
              /\ w = 0 => \E b \in 1 .. u - 1 : exit[b] = 2

\* A use without a readable verdict is broken whatever revctl exited with.
NoVerdictNeverGreen ==
    \A u \in 1 .. Uses : exit[u] \in {0, 1} => out[u].comment # ""

\* "A broken analysis is never a pass" (action.yml): a use whose analysis
\* failed does not exit 0.
BrokenNeverPasses ==
    \A u \in 1 .. Uses : exit[u] = 0 => ~verdict[u].broken
=============================================================================
