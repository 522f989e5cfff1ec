------------------------------ MODULE Promise ------------------------------
(***************************************************************************)
(* What a caller is promised of one call for a certificate, whoever makes  *)
(* it and however it is made: evidence is gathered, steps may fail, and in *)
(* the end there is one answer, no better than the evidence and never a    *)
(* measured one when something went wrong.  Certify implements it.         *)
(***************************************************************************)
EXTENDS Verdict

VARIABLES
    evidence,  \* what the analyzers reported so far, as they reported it
    trouble,   \* a step of the analysis failed
    answer     \* what the caller was given

vars == <<evidence, trouble, answer>>

NoAnswer == [grade |-> "none"]

Init ==
    /\ evidence = {}
    /\ trouble = FALSE
    /\ answer = NoAnswer

\* Evidence is added and never taken back; a step that failed has failed.
Look ==
    /\ answer = NoAnswer
    /\ evidence \subseteq evidence'
    /\ trouble => trouble'
    /\ UNCHANGED answer

\* What the evidence earns by itself, every migration assumed to be undone by
\* a down of its own.
Earned == Score(evidence, {}, {}, "ANALYZED", {})

\* The one answer. Trouble cannot be graded away, neither can evidence, and
\* the merge gate opens on reversible changes under short locks alone.
Give ==
    /\ answer = NoAnswer
    /\ answer' \in Assessments
    /\ trouble => answer'.broken
    /\ Rank(answer'.grade) <= Rank(Earned)
    /\ answer'.gate = "PASS" =>
         \A f \in evidence : f.rev = "REVERSIBLE" /\ f.lock \in {"NONE", "SHORT"}
    /\ UNCHANGED <<evidence, trouble>>

Next == Look \/ Give

Safe == Init /\ [][Next]_vars

\* Whoever asks is answered.
Answers == <>(answer # NoAnswer)

Spec == Safe /\ Answers
=============================================================================
