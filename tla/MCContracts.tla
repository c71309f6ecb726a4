---------------------------- MODULE MCContracts -----------------------------
(* An instance of Contracts for TLC: every path up to the bound on a        *)
(* target's length and some one byte longer.                                *)
EXTENDS Contracts

Words(alphabet, n) == UNION {[1 .. k -> alphabet] : k \in 0 .. n}

SomePaths ==
    Words(Bytes, MaxTarget)
    \cup {<<first>> \o p : first \in {"/", "c"}, p \in [1 .. MaxTarget -> {"/", "c", ":"}]}
=============================================================================
