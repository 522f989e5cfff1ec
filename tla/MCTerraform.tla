---------------------------- MODULE MCTerraform ----------------------------
(***************************************************************************)
(* A type of each class and two the catalog does not know; two plans and a *)
(* file that is none.                                                      *)
(***************************************************************************)
EXTENDS Terraform

MCTypes    == {"db", "vm", "x", "y"}
MCWords    == Classes \cup {"stateful", "DURABLE"}
MCEmbedded == [t \in MCTypes |-> CASE t = "db" -> "STATEFUL" [] t = "vm" -> "STATELESS" [] OTHER -> "none"]
MCUpper    == [w \in MCWords |-> IF w = "stateful" THEN "STATEFUL" ELSE w]

O(type, class) == [type |-> type, class |-> class]

\* Tightening, classifying, weakening what is known and what was just said,
\* and lines that name no type or no class.
Lists ==
    {<< >>, <<O("vm", "STATEFUL")>>, <<O("db", "STATELESS")>>, <<O("x", "STATELESS")>>,
     <<O("x", "STATEFUL"), O("x", "STATELESS")>>, <<O("x", "STATELESS"), O("x", "STATEFUL")>>,
     <<O("", "STATEFUL")>>, <<O("x", "stateful")>>, <<O("y", "DURABLE")>>}

\* No file; each list behind its key; no key at all; the key twice; no version.
MCPolicyFiles ==
    {NoFile, [version |-> TRUE, lists |-> << >>],
     [version |-> TRUE, lists |-> <<<<O("x", "STATELESS")>>, <<O("y", "STATELESS")>>>>],
     [version |-> FALSE, lists |-> <<<<O("x", "STATELESS")>>>>]}
    \cup {[version |-> TRUE, lists |-> <<l>>] : l \in Lists}

Sides ==
    {<< >>} \cup [{"deletion_protection"} -> {"null", "true", "false"}]
            \cup [{"force_destroy"} -> {"true", "false"}]
            \cup [{"backup_retention_period"} -> {"positive", "zero"}]
            \cup [{"versioning"} -> {"empty", "bare", "true", "false"}]

Change(mode, type, actions, before, after) ==
    [mode |-> mode, type |-> type, actions |-> actions, before |-> before, after |-> after]

Destructions ==
    {Change("managed", t, a, b, << >>) :
        t \in MCTypes, a \in {<<"delete">>, <<"delete", "create">>, <<"create", "delete">>}, b \in Sides}

Updates == {Change("managed", "db", <<"update">>, b, a) : b \in Sides, a \in Sides}

Others ==
    {Change("managed", "db", <<"create">>, << >>, << >>), Change("managed", "db", <<"no-op">>, << >>, << >>),
     Change("data", "db", <<"read">>, << >>, << >>), Change("data", "db", <<"delete">>, << >>, << >>)}

Unknowns == {Change("managed", t, <<"delete">>, << >>, << >>) : t \in {"x", "y"}}

Few ==
    {[ok |-> FALSE, changes |-> {}], [ok |-> TRUE, changes |-> {}], [ok |-> TRUE, changes |-> Unknowns]}

\* Every single change in the first plan; the second has few things to say.
MCPlans ==
    [f \in 1 .. 3 |->
        Few \cup (IF f = 1 THEN {[ok |-> TRUE, changes |-> {c}] : c \in Destructions \cup Updates \cup Others}
                 ELSE {})]
=============================================================================
