--------------------------- MODULE MCWireExchange ---------------------------
(* An instance of WireExchange for TLC. *)
EXTENDS WireExchange

(* A correct reply, an error, replies for another image id and without one. *)
SomeKgpReplies ==
    {[t |-> "kgp", control |-> Own, status |-> s] : s \in {"OK", "EINVAL"}}
    \cup {[t |-> "kgp", control |-> c, status |-> "OK"] : c \in {"i=other", "I=own"}}

(* With Sixel, with level 4 and an empty parameter, none, one too large. *)
SomeDa1Replies ==
    {[t |-> "da1", params |-> p] :
        p \in {<<"62", "semi", "4">>, <<"4", "semi", "semi", "6">>, <<>>, <<"62", "semi", "65536">>}}

SomeReports == {<<"40", "62">>, <<"8", "4">>, <<"0", "40">>, <<"65536", "6">>}

SomeLateReplies ==
    {[t |-> "kgp", control |-> "i=other", status |-> "ENOENT"],
     [t |-> "da1", params |-> <<"62", "semi", "4">>],
     [t |-> "report", code |-> "4", size |-> <<"6", "8">>],
     [t |-> "report", code |-> "8", size |-> <<"6", "8">>]}

SomeKeys == {<<"ESC">>, <<"ESC", "[", "A">>}
=============================================================================
