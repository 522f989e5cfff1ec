----------------------------- MODULE MCCertify -----------------------------
(***************************************************************************)
(* A small repository for Certify: one migration, one manifest, one Django *)
(* migration beside the first and one note beside the second; the          *)
(* kubernetes and postgres analyzers, in registry order.                   *)
(***************************************************************************)
EXTENDS Certify

CONSTANTS up, manifest, script, note, dbDir, appDir

MCPaths          == {up, manifest, script, note}
MCRules          == {"PG001", "PG017", "PG021", "PG027", "K8S010"}
MCNumAnalyzers   == 2
MCClaims         == <<{manifest}, {up}>>
MCValidators     == {2}
MCUps            == {up}
MCDir            == [p \in MCPaths |-> IF p \in {up, script} THEN dbDir ELSE appDir]
MCMigrationNamed == {dbDir}
MCIgnorable      == {manifest, script}
MCSql            == {up}
MCScript         == {script}

F(id, rule, file, rev, lock) ==
    [id |-> id, rule |-> rule, file |-> file, rev |-> rev, lock |-> lock,
     band |-> "", undo |-> rev \in {"REVERSIBLE", "COSTLY"}]

\* One finding of each kind the rest of the run treats differently.
MCReportable ==
    << {F(1, "K8S010", manifest, "COSTLY", "NONE")},
       {F(2, "PG001", up, "IRREVERSIBLE", "EXCLUSIVE"),
        F(3, "PG017", up, "COSTLY", "FULL_SCAN"),
        F(4, "PG021", up, "REVERSIBLE", "FULL_SCAN"),
        F(5, "PG027", up, "UNKNOWN", "EXCLUSIVE")} >>

W(rule, paths, live) == [rule |-> rule, paths |-> paths, live |-> live]
O(rule, severity)    == [rule |-> rule, severity |-> severity]

\* Waivers that fire, with an expired and a redundant twin, beside one that
\* must not reach anything; overrides beside waivers for the same rules, one
\* of which a snapshot can turn into an error and one for statements that do
\* not parse; overrides that lower another one and a verdict of the catalog.
MCPolicies ==
    {NoPolicy,
     [overrides |-> << >>,
      waivers |-> <<W("PG001", {up}, FALSE), W("PG001", {up}, TRUE), W("PG001", MCPaths, TRUE),
                    W("PG027", MCPaths, TRUE), W("PG017", {up}, TRUE), W("K8S010", {up}, TRUE)>>],
     [overrides |-> <<O("K8S010", "IRREVERSIBLE"), O("K8S010", "COSTLY"), O("PG001", "COSTLY"),
                      O("PG017", "IRREVERSIBLE"), O("PG027", "IRREVERSIBLE")>>,
      waivers |-> <<W("PG017", {up}, TRUE), W("K8S010", MCPaths, TRUE), W("PG027", {up}, TRUE)>>]}

MCSnapshots ==
    {NoSnapshot,
     [nulls |-> {up}, lasts |-> [p \in MCPaths |-> "NEGLIGIBLE"]],
     [nulls |-> {},   lasts |-> [p \in MCPaths |-> "OUTAGE"]]}
=============================================================================
