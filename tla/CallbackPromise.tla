--------------------------- MODULE CallbackPromise ---------------------------
(***************************************************************************)
(* What Intent callback v1 promises about one clicked link, without        *)
(* sockets, processes or queues: its intent reaches the consumer at most   *)
(* once, the dispatcher hears `forwarded` only after that, and after       *)
(* `rejected` it is never handed over. A dispatcher that hears of a        *)
(* failure knows nothing: the intent may be handed over before or later.   *)
(***************************************************************************)
EXTENDS Naturals

CONSTANT Dispatches

VARIABLES copies,   \* how often each intent was written to a consumer
          told      \* what each dispatcher has been told

Init ==
    /\ copies = [d \in Dispatches |-> 0]
    /\ told = [d \in Dispatches |-> "pending"]

HandOver(d) ==
    /\ copies[d] = 0
    /\ told[d] \in {"pending", "failed"}
    /\ copies' = [copies EXCEPT ![d] = 1]
    /\ UNCHANGED told

Tell(d, outcome) ==
    /\ told[d] = "pending"
    /\ outcome = "forwarded" => copies[d] = 1
    /\ outcome = "rejected" => copies[d] = 0
    /\ told' = [told EXCEPT ![d] = outcome]
    /\ UNCHANGED copies

Next ==
    \E d \in Dispatches :
        HandOver(d) \/ \E o \in {"forwarded", "rejected", "failed"} : Tell(d, o)

Spec == Init /\ [][Next]_<<copies, told>>
=============================================================================
