---------------------------- MODULE MCNegotiation ----------------------------
(* Instances of Negotiation for TLC. *)
EXTENDS Negotiation

CONSTANTS kgp, sixel

R(id, av, co, re, ok) ==
    [identity |-> id, availability |-> av, conformance |-> co, readiness |-> re, valid |-> ok]

(* Two eligible receipts, one for each way to miss eligibility, and one    *)
(* that is eligible but structurally broken.                               *)
SomeReceipts == {
    R(kgp, "available", "conformant", "ready", TRUE),
    R(sixel, "available", "conformant", "not_required", TRUE),
    R(kgp, "unavailable", "not_applicable", "ready", TRUE),
    R(sixel, "available", "nonconformant", "ready", TRUE),
    R(kgp, "available", "conformant", "unknown", TRUE),
    R(sixel, "available", "conformant", "ready", FALSE)}
=============================================================================
