---------------------------- MODULE MCReviewApp ----------------------------
(***************************************************************************)
(* Two pushes to one pull request, one installation, one person.           *)
(***************************************************************************)
EXTENDS ReviewApp

CONSTANTS push1, push2, pr, app, h1

MCDeliveries   == {push1, push2}
MCKind         == [d \in MCDeliveries |-> "analyzed"]
MCRequest      == [d \in MCDeliveries |-> pr]
MCInstallation == [d \in MCDeliveries |-> app]
=============================================================================
