------------------------------ MODULE MCAction ------------------------------
(***************************************************************************)
(* A job that certifies two changes, one after the other, each of which    *)
(* concludes in one of the ways an analysis can.                           *)
(***************************************************************************)
EXTENDS Action

V(grade, effective, gate, outcome, coverage, broken) ==
    [grade |-> grade, effective |-> effective, gate |-> gate, outcome |-> outcome,
     coverage |-> coverage, broken |-> broken]

\* Reversible; reversible with a migration ignored; costly, which is where the
\* gate of the runs lies; irreversible, and irreversible but waived; nothing to
\* read; nothing readable; not all of it readable; broken, over something to
\* read and over nothing.
MCConclusions ==
    {V("A",   "A",   "PASS",           "ANALYZED",            "FULL",    FALSE),
     V("A",   "A",   "FAIL",           "ANALYZED",            "FULL",    FALSE),
     V("B",   "B",   "FAIL",           "ANALYZED",            "FULL",    FALSE),
     V("F",   "F",   "FAIL",           "ANALYZED",            "FULL",    FALSE),
     V("F",   "B",   "FAIL",           "ANALYZED",            "FULL",    FALSE),
     V("N/A", "N/A", "NOT_APPLICABLE", "NO_CANDIDATES",       "FULL",    FALSE),
     V("N/A", "N/A", "NOT_APPLICABLE", "UNSUPPORTED_CONTENT", "PARTIAL", FALSE),
     V("F",   "F",   "FAIL",           "ANALYZED",            "PARTIAL", FALSE),
     V("F",   "F",   "FAIL",           "ANALYZED",            "FULL",    TRUE),
     V("F",   "F",   "FAIL",           "NO_CANDIDATES",       "FULL",    TRUE)}

\* The certificate that was there before says PASS, beside a grade that no PASS
\* of these changes has.
MCEarlier == {V("B", "A", "PASS", "ANALYZED", "FULL", FALSE)}

\* A clean workspace; one with a whole certificate of every format; one with
\* what a job that was cut short left.
MCCheckouts ==
    {[f \in Workspace |-> Nothing], [f \in Workspace |-> Whole(0)],
     [f \in Workspace |-> IF f = "json" THEN Partial ELSE Whole(0)]}
=============================================================================
