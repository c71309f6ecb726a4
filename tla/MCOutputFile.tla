---------------------------- MODULE MCOutputFile ----------------------------
(* An instance of OutputFile for TLC. *)
EXTENDS OutputFile

CONSTANTS w1, w2, w3

Processes == {w1, w2, w3}
=============================================================================
