------------------------------ MODULE Analyzer ------------------------------
(***************************************************************************)
(* What every analyzer owes the engine for one call of Analyze, whatever   *)
(* it reads: an error, and then nothing else, when the analysis could not  *)
(* be completed; otherwise an answer to everything it met that has to be   *)
(* answered, since "the scorer reads an absence of findings as an absence  *)
(* of risk".  Postgres, Kubernetes and Terraform implement it; Certify     *)
(* takes the findings of the analyzers it calls for all there is.          *)
(***************************************************************************)

VARIABLES
    claimed,  \* the files of the changeset that the analyzer claims
    owed,     \* what was met in them that has to be answered, as [at, legible]
    told,     \* what the caller was given: findings, as [file, at, rev]
    state     \* "working", "returned" or "failed"

vars == <<claimed, owed, told, state>>

Init ==
    /\ owed = {} /\ told = {}
    /\ state = "working"

\* Files are read; what was met stays owed.
Look ==
    /\ state = "working"
    /\ UNCHANGED <<claimed, told, state>>
    /\ owed \subseteq owed'

\* A finding speaks of a file that was claimed.
Within(findings) == \A f \in findings : f.file \in claimed

\* What could not be read is UNKNOWN.
Answered(o, findings) ==
    \E f \in findings : f.at = o.at /\ (~o.legible => f.rev = "UNKNOWN")

\* Findings and a nil error: nothing that was met is missing.
Report ==
    /\ state = "working"
    /\ state' = "returned"
    /\ owed \subseteq owed'
    /\ \A o \in owed' : Answered(o, told')
    /\ Within(told')
    /\ UNCHANGED claimed

\* An error comes alone.
Fail ==
    /\ state = "working"
    /\ state' = "failed"
    /\ owed' = {} /\ told' = {}
    /\ UNCHANGED claimed

\* The next call starts from nothing.
Again ==
    /\ state = "returned"
    /\ state' = "working"
    /\ owed' = {} /\ told' = {}
    /\ UNCHANGED claimed

Next == Look \/ Report \/ Fail \/ Again

Spec == Init /\ [][Next]_vars
=============================================================================
