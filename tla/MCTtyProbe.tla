----------------------------- MODULE MCTtyProbe -----------------------------
(* An instance of TtyProbe for TLC. *)
EXTENDS TtyProbe

(* A KGP query that an earlier process left unanswered. *)
Earlier == <<[kind |-> "kgp", id |-> 2]>>

FarEnds(kgp, echo, late, sixel, tmux, unanswered, typing) ==
    [kgp : kgp, echo : echo, late : late, sixel : sixel,
     tmux : {tmux}, unanswered : {unanswered}, typing : {typing}]

(* Every terminal, reached directly and after an earlier process; what one *)
(* without the protocol would do with a KGP query is of no account. Before *)
(* two of them the user types. Two terminals behind tmux.                  *)
SomeTerminals ==
    FarEnds({"ok", "error"}, BOOLEAN, BOOLEAN, BOOLEAN, FALSE, Earlier, 0)
    \cup FarEnds({"absent"}, {FALSE}, {FALSE}, BOOLEAN, FALSE, Earlier, 0)
    \cup FarEnds({"ok"}, {TRUE}, BOOLEAN, {FALSE}, FALSE, Earlier, 1)
    \cup FarEnds({"ok", "error"}, {TRUE}, {FALSE}, {FALSE}, TRUE, <<>>, 0)
=============================================================================
