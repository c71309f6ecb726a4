------------------------------ MODULE TtyProbe ------------------------------
(***************************************************************************)
(* `term-interop negotiate pixel`: a KGP probe and then a Sixel probe over *)
(* one TTY, each after the readiness exchanges of its transport. An        *)
(* exchange flushes the TTY input, turns on raw mode under a drop guard,   *)
(* writes a query and collects bytes until a DA1 barrier, the byte limit,  *)
(* the deadline or end of input. The terminal answers when it likes, in    *)
(* pieces, and its answers carry no mark of the query they belong to.      *)
(***************************************************************************)
EXTENDS Naturals, Sequences

CONSTANTS Terminals,         \* the chains of transport and terminal at the far end
          Millisecond,       \* ticks of the clock in a millisecond
          Timeout,           \* --timeout-ms, in ticks like every other time
          TransportTimeout,  \* --transport-timeout-ms
          AttemptTimeout,    \* TRANSPORT_ATTEMPT_TIMEOUT_MS
          PollMax,           \* the longest wait a poll call is given, u16::MAX ms
          MaxResponse        \* --max-response-bytes, in pieces

(* A query is KGP followed by DA1, or DA1 alone. Own is the image id of    *)
(* this process, 0 an id that no process uses.                             *)
Own == 1
Queries == [kind : {"kgp", "da1"}, id : Nat]

(* What a terminal does with a query: its KGP status if it has the         *)
(* protocol, whether it echoes the image id, whether it answers KGP only   *)
(* after DA1, and whether DA1 advertises extension 4. What is in front of  *)
(* it: whether the transport is tmux passthrough, the queries an earlier   *)
(* process wrote and abandoned, and how many keys the user types (a bound).*)
Terminal == [kgp : {"absent", "ok", "error"}, echo : BOOLEAN, late : BOOLEAN, sixel : BOOLEAN,
             tmux : BOOLEAN, unanswered : Seq([kind : {"kgp", "da1"}, id : Nat \ {Own}]),
             typing : Nat]

ASSUME TtyAssumption ==
    /\ Terminals \subseteq Terminal
    /\ {Millisecond, Timeout, TransportTimeout, AttemptTimeout, PollMax, MaxResponse}
         \subseteq Nat \ {0}
    /\ Millisecond <= PollMax

VARIABLES
    term,        \* the far end, fixed during a behaviour
    asked,       \* queries on their way to the terminal
    wire,        \* pieces of answers on their way back
    input,       \* the TTY input queue
    keys,        \* keys typed so far
    hung,        \* the TTY was hung up
    mode,        \* the TTY's line discipline
    saved,       \* RawModeGuard: the mode its drop restores, or "none"
    pc,          \* where the prober is
    probe,       \* the receipt being made
    stage,       \* readiness exchange or the probe's own exchange
    readiness,   \* TransportReadiness of the current probe
    response,    \* bytes collected by the current exchange
    left,        \* time to the deadline of the exchange
    wait,        \* time to the end of the poll call
    budget,      \* time to the deadline of prepare_transport
    receipts     \* finished receipts

terminal == <<term, asked, wire, keys, hung>>
timers == <<left, wait, budget>>
vars == <<terminal, input, mode, saved, pc, probe, stage, readiness, response, timers, receipts>>

(* An answer arrives as two pieces, a key as one. *)
Pieces == [part : {0, 1, 2}, kind : {"kgp", "da1", "key"}, id : Nat, good : BOOLEAN]
Key == [part |-> 0, kind |-> "key", id |-> 0, good |-> FALSE]

Running == {"prepare", "attempt", "open", "raw", "write", "loop", "poll"}
Guarded == {"write", "loop", "poll"}
Ended == {"done", "failed", "unguarded", "killed"}
Barriers == {"capability_and_barrier", "barrier"}
StopReasons == Barriers \cup {"timeout", "resource_limit", "end_of_input"}

Assessments == [availability : {"available", "unavailable", "unknown"},
                conformance : {"conformant", "nonconformant", "not_applicable", "inconclusive"}]
Receipts == [assessment : Assessments, readiness : {"not_required", "unknown", "ready"},
             stop : StopReasons, elapsed : 0..Timeout]
NoReceipt == [stop |-> "none"]

TypeOK ==
    /\ term \in Terminals
    /\ asked \in Seq(Queries)
    /\ wire \in Seq(Pieces)
    /\ input \in Seq(Pieces)
    /\ keys \in 0..term.typing
    /\ hung \in BOOLEAN
    /\ mode \in {"cooked", "raw"}
    /\ saved \in {"none", "cooked"}
    /\ pc \in Running \cup Ended
    /\ probe \in {"kgp", "sixel"}
    /\ stage \in {"readiness", "exchange"}
    /\ readiness \in {"not_required", "unknown", "ready"}
    /\ response \in Seq(Pieces) /\ Len(response) <= MaxResponse
    /\ left \in 0..Timeout \cup 0..AttemptTimeout
    /\ wait \in 0..PollMax
    /\ budget \in 0..TransportTimeout
    /\ receipts \in [{"kgp", "sixel"} -> Receipts \cup {NoReceipt}]

-----------------------------------------------------------------------------
(* What the parsers recognise: answers of which both pieces are there.     *)

(* The indices at which parse_exchange and parse_responses see an answer. *)
Answers(resp, kind) ==
    {i \in 2..Len(resp) : /\ resp[i - 1].part = 1
                          /\ resp[i] = [resp[i - 1] EXCEPT !.part = 2]
                          /\ resp[i].kind = kind}

(* KGP replies with this process's image id. *)
Matching(resp) == {i \in Answers(resp, "kgp") : resp[i].id = Own}

First(S) == CHOOSE i \in S : \A j \in S : i <= j

(* Fault: silence until the deadline counts as a refusal. *)
AssessKgpSilence(resp) ==
    [availability |-> IF Matching(resp) # {} THEN "available" ELSE "unavailable",
     conformance |-> IF Matching(resp) # {} THEN "conformant" ELSE "not_applicable"]

(* Fault: the order of reply and barrier is not looked at. *)
AssessKgpUnordered(resp) ==
    IF Matching(resp) # {} /\ Answers(resp, "da1") # {}
    THEN [availability |-> "available",
          conformance |-> IF resp[First(Matching(resp))].good
                          THEN "conformant" ELSE "nonconformant"]
    ELSE [availability |-> "unknown", conformance |-> "inconclusive"]

(* assess, assess_matching_reply and its siblings *)
AssessKgp(resp) ==
    LET barrier == Answers(resp, "da1")
        reply == First(Matching(resp))
        conformant == resp[reply].good /\ reply < First(barrier)
    IN
    CASE Matching(resp) # {} ->
           [availability |-> "available",
            conformance |-> CASE barrier = {} -> "inconclusive"
                              [] barrier # {} /\ conformant -> "conformant"
                              [] OTHER -> "nonconformant"]
      [] Matching(resp) = {} /\ Answers(resp, "kgp") # {} ->
           [availability |-> "available", conformance |-> "nonconformant"]
      [] Answers(resp, "kgp") = {} /\ barrier # {} ->
           [availability |-> "unavailable", conformance |-> "not_applicable"]
      [] OTHER -> [availability |-> "unknown", conformance |-> "inconclusive"]

(* parse_exchange of the Sixel adapter *)
AssessSixel(resp) ==
    CASE \E i \in Answers(resp, "da1") : resp[i].good ->
           [availability |-> "available", conformance |-> "conformant"]
      [] Answers(resp, "da1") # {} /\ \A i \in Answers(resp, "da1") : ~resp[i].good ->
           [availability |-> "unavailable", conformance |-> "not_applicable"]
      [] OTHER -> [availability |-> "unknown", conformance |-> "inconclusive"]

(* kgp_stop_reason for the KGP exchange, da1_stop_reason for the others. *)
StopWhen(resp) ==
    CASE Answers(resp, "da1") = {} -> "none"
      [] /\ Answers(resp, "da1") # {}
         /\ stage = "exchange" /\ probe = "kgp" /\ Matching(resp) # {} -> "capability_and_barrier"
      [] OTHER -> "barrier"

(* receipt_is_eligible *)
Eligible(r) ==
    /\ r.stop # "none"
    /\ r.assessment = [availability |-> "available", conformance |-> "conformant"]
    /\ r.readiness \in {"not_required", "ready"}

-----------------------------------------------------------------------------
(* The terminal and the user: outside the program, while it runs.          *)

Halves(kind, id, good) ==
    <<[part |-> 1, kind |-> kind, id |-> id, good |-> good],
      [part |-> 2, kind |-> kind, id |-> id, good |-> good]>>

(* The terminal answers the next query, in its own order. *)
Answer ==
    LET q == Head(asked)
        da1 == Halves("da1", 0, term.sixel)
        kgp == IF q.kind = "kgp" /\ term.kgp # "absent"
               THEN Halves("kgp", IF term.echo THEN q.id ELSE 0, term.kgp = "ok")
               ELSE <<>>
    IN
    /\ pc \in Running
    /\ asked # <<>>
    /\ wire' = wire \o (IF term.late THEN da1 \o kgp ELSE kgp \o da1)
    /\ asked' = Tail(asked)
    /\ UNCHANGED <<term, keys, hung, input, mode, saved, pc, probe, stage, readiness, response,
                   timers, receipts>>

(* A layer of the chain swallows a query: tmux without passthrough does. *)
Swallow ==
    /\ pc \in Running
    /\ asked # <<>>
    /\ asked' = Tail(asked)
    /\ UNCHANGED <<term, wire, keys, hung, input, mode, saved, pc, probe, stage, readiness,
                   response, timers, receipts>>

Arrive ==
    /\ pc \in Running
    /\ wire # <<>> /\ ~hung
    /\ input' = Append(input, Head(wire))
    /\ wire' = Tail(wire)
    /\ UNCHANGED <<term, asked, keys, hung, mode, saved, pc, probe, stage, readiness, response,
                   timers, receipts>>

TypeKey ==
    /\ pc \in Running
    /\ keys < term.typing
    /\ wire' = Append(wire, Key)
    /\ keys' = keys + 1
    /\ UNCHANGED <<term, asked, hung, input, mode, saved, pc, probe, stage, readiness, response,
                   timers, receipts>>

HangUp ==
    /\ pc \in Running
    /\ ~hung
    /\ hung' = TRUE
    /\ input' = <<>>
    /\ UNCHANGED <<term, asked, wire, keys, mode, saved, pc, probe, stage, readiness, response,
                   timers, receipts>>

(* The clocks of the exchange, of its poll call and of prepare_transport.  *)
Tick ==
    LET collecting == pc \in {"loop", "poll"} /\ left + wait > 0
        preparing == stage = "readiness" /\ pc \in Running /\ budget > 0
        Down(n) == IF n > 0 THEN n - 1 ELSE 0
    IN
    /\ collecting \/ preparing
    /\ left' = IF collecting THEN Down(left) ELSE left
    /\ wait' = IF collecting THEN Down(wait) ELSE wait
    /\ budget' = IF preparing THEN Down(budget) ELSE budget
    /\ UNCHANGED <<terminal, input, mode, saved, pc, probe, stage, readiness, response, receipts>>

-----------------------------------------------------------------------------
(* The prober.                                                             *)

Init ==
    /\ term \in Terminals
    /\ asked = term.unanswered
    /\ wire = <<>>
    /\ input = <<>>
    /\ keys = 0
    /\ hung = FALSE
    /\ mode = "cooked"
    /\ saved = "none"
    /\ pc = "prepare"
    /\ probe = "kgp"
    /\ stage = "readiness"
    /\ readiness = "not_required"
    /\ response = <<>>
    /\ left = 0
    /\ wait = 0
    /\ budget = 0
    /\ receipts = [p \in {"kgp", "sixel"} |-> NoReceipt]

Least(a, b) == IF a < b THEN a ELSE b

(* prepare_transport up to its loop *)
Prepare ==
    /\ pc = "prepare"
    /\ \/ /\ ~term.tmux
          /\ readiness' = "not_required"
          /\ stage' = "exchange"
          /\ left' = Timeout
          /\ pc' = "open"
          /\ UNCHANGED budget
       \/ /\ term.tmux
          /\ readiness' = "unknown"
          /\ stage' = "readiness"
          /\ budget' = TransportTimeout
          /\ pc' = "attempt"
          /\ UNCHANGED left
    /\ UNCHANGED <<terminal, input, mode, saved, probe, response, wait, receipts>>

(* The head of the loop in prepare_transport. *)
Attempt ==
    /\ pc = "attempt"
    /\ \/ budget = 0 /\ stage' = "exchange" /\ left' = Timeout
       \/ budget > 0 /\ left' = Least(budget, AttemptTimeout) /\ UNCHANGED stage
    /\ pc' = "open"
    /\ UNCHANGED <<terminal, input, mode, saved, probe, readiness, response, wait, budget,
                   receipts>>

(* What the process knew goes with it: an error discards the receipts.     *)
Forget ==
    /\ saved' = "none" /\ probe' = "kgp" /\ stage' = "readiness" /\ readiness' = "not_required"
    /\ response' = <<>> /\ left' = 0 /\ wait' = 0 /\ budget' = 0
    /\ receipts' = [p \in {"kgp", "sixel"} |-> NoReceipt]

(* Fault: the attributes are read after raw mode is set. *)
OpenTtyRaw ==
    /\ pc = "open" /\ ~hung
    /\ saved' = "raw"
    /\ input' = <<>>
    /\ pc' = "raw"
    /\ UNCHANGED <<terminal, mode, probe, stage, readiness, response, timers, receipts>>

(* execute_tty_exchange: open, tcgetattr, tcflush *)
OpenTty ==
    /\ pc = "open" /\ ~hung
    /\ saved' = mode
    /\ input' = <<>>
    /\ pc' = "raw"
    /\ UNCHANGED <<terminal, mode, probe, stage, readiness, response, timers, receipts>>

(* tcsetattr, then the guard. It is made from a duplicate of the           *)
(* descriptor; if there is none to be had the process ends without it.     *)
SetRaw ==
    /\ pc = "raw"
    /\ mode' = "raw"
    /\ \/ pc' = "write"
          /\ UNCHANGED <<saved, probe, stage, readiness, response, timers, receipts>>
       \/ pc' = "unguarded" /\ Forget
    /\ UNCHANGED <<terminal, input>>

WriteRequest ==
    /\ pc = "write" /\ ~hung
    /\ asked' = Append(asked, [kind |-> IF stage = "exchange" /\ probe = "kgp"
                                        THEN "kgp" ELSE "da1", id |-> Own])
    /\ response' = <<>>
    /\ pc' = "loop"
    /\ UNCHANGED <<term, wire, keys, hung, input, mode, saved, probe, stage, readiness, timers,
                   receipts>>

(* The receipt of kgp_receipt or sixel_receipt. *)
Receipt(reason) ==
    [assessment |-> IF probe = "kgp" THEN AssessKgp(response) ELSE AssessSixel(response),
     readiness |-> readiness, stop |-> reason, elapsed |-> Timeout - left]

(* The exchange returns: the guard is dropped and the caller goes on.      *)
Return(reason) ==
    /\ mode' = saved
    /\ \/ /\ stage = "readiness" /\ Answers(response, "da1") # {}
          /\ readiness' = "ready" /\ stage' = "exchange" /\ left' = Timeout /\ pc' = "open"
          /\ UNCHANGED <<probe, receipts>>
       \/ /\ stage = "readiness" /\ Answers(response, "da1") = {}
          /\ pc' = "attempt" /\ left' = 0
          /\ UNCHANGED <<readiness, stage, probe, receipts>>
       \/ /\ stage = "exchange"
          /\ receipts' = [receipts EXCEPT ![probe] = Receipt(reason)]
          /\ probe' = "sixel" /\ pc' = IF probe = "kgp" THEN "prepare" ELSE "done"
          /\ left' = 0
          /\ UNCHANGED <<readiness, stage>>
    /\ response' = <<>> /\ wait' = 0
    /\ UNCHANGED <<terminal, input, saved, budget>>

(* remaining_timeout: what is left of the deadline in whole milliseconds,  *)
(* rounded down, at least one of them and at most what poll can be told in *)
(* 16 bits.                                                                *)
RemainingTimeout ==
    LET whole == left - (left % Millisecond) IN
    IF whole < Millisecond THEN Millisecond ELSE Least(whole, PollMax)

(* The three tests at the head of the loop, in order, then poll. *)
Collect ==
    /\ pc = "loop"
    /\ \/ StopWhen(response) # "none" /\ Return(StopWhen(response))
       \/ /\ StopWhen(response) = "none"
          /\ \/ Len(response) >= MaxResponse /\ Return("resource_limit")
             \/ Len(response) < MaxResponse /\ left = 0 /\ Return("timeout")
             \/ /\ Len(response) < MaxResponse /\ left > 0
                /\ wait' = RemainingTimeout
                /\ pc' = "poll"
                /\ UNCHANGED <<terminal, input, mode, saved, probe, stage, readiness, response,
                               left, budget, receipts>>

ReadBytes ==
    LET n == Least(Len(input), MaxResponse - Len(response)) IN
    /\ pc = "poll" /\ input # <<>>
    /\ response' = response \o SubSeq(input, 1, n)
    /\ input' = SubSeq(input, n + 1, Len(input))
    /\ pc' = "loop" /\ wait' = 0
    /\ UNCHANGED <<terminal, mode, saved, probe, stage, readiness, left, budget, receipts>>

(* Fault: an expired poll call is made again, the deadline not looked at. *)
PollExpiresForever ==
    /\ pc = "poll" /\ input = <<>> /\ ~hung /\ wait = 0
    /\ UNCHANGED vars

(* poll returns 0: the exchange stops, whatever the deadline says. *)
PollExpires ==
    /\ pc = "poll" /\ input = <<>> /\ ~hung /\ wait = 0
    /\ Return("timeout")

ReadEof == pc = "poll" /\ input = <<>> /\ hung /\ Return("end_of_input")

(* EINTR *)
Interrupt ==
    /\ pc = "poll"
    /\ pc' = "loop" /\ wait' = 0
    /\ UNCHANGED <<terminal, input, mode, saved, probe, stage, readiness, response, left, budget,
                   receipts>>

(* Any other terminal error; the guard restores the mode if it exists. *)
Fail ==
    /\ pc \in {"open", "raw", "write", "poll"}
    /\ mode' = IF pc \in Guarded THEN saved ELSE mode
    /\ pc' = "failed"
    /\ Forget
    /\ UNCHANGED <<terminal, input>>

(* A signal without a handler ends the process; no guard runs. *)
Kill ==
    /\ pc \in Running
    /\ pc' = "killed"
    /\ Forget
    /\ UNCHANGED <<terminal, input, mode>>

Work ==
    \/ Prepare \/ Attempt \/ OpenTty \/ SetRaw \/ WriteRequest
    \/ Collect \/ ReadBytes \/ PollExpires \/ ReadEof
    \/ hung /\ Fail

Next == Work \/ Fail \/ Interrupt \/ Kill \/ Tick \/ Answer \/ Swallow \/ Arrive \/ TypeKey \/ HangUp

Spec == Init /\ [][Next]_vars

(* The scheduler runs the prober, and time passes. Nothing is assumed of   *)
(* the terminal, and no call has to fail unless the TTY is gone.           *)
FairSpec == Spec /\ WF_vars(Work) /\ WF_vars(Tick)

-----------------------------------------------------------------------------
(* Properties.                                                             *)

(* What negotiate_pixel selects once both receipts are there. *)
Selection ==
    CASE Eligible(receipts["kgp"]) -> "kgp"
      [] ~Eligible(receipts["kgp"]) /\ Eligible(receipts["sixel"]) -> "sixel"
      [] OTHER -> "none"

(* The renderer that negotiate_pixel selects is one the terminal really    *)
(* has: late answers of earlier exchanges, of another process, split or    *)
(* misordered answers never make a claim that is not true of the terminal. *)
SelectedIsSupported ==
    pc = "done" =>
        /\ Selection = "kgp" => term.kgp = "ok" /\ term.echo /\ ~term.late
        /\ Selection = "sixel" => term.sixel

(* The Sixel probe is not misled by an answer to an earlier DA1 query, and *)
(* neither probe reports "unavailable" when collection stopped for lack of *)
(* an answer: silence stays "unknown".                                     *)
SilenceStaysUnknown ==
    /\ receipts["sixel"].stop # "none" =>
         (receipts["sixel"].assessment.availability = "unavailable" => ~term.sixel)
    /\ \A p \in {"kgp", "sixel"} :
         receipts[p].stop \in StopReasons \ Barriers =>
             receipts[p].assessment.availability # "unavailable"

(* A receipt that says "timeout" was made when the configured time had     *)
(* passed but for less than the millisecond that remaining_timeout rounds  *)
(* away, or when a whole poll call of the longest kind had expired.        *)
TimeoutIsNotEarly ==
    \A p \in {"kgp", "sixel"} :
        receipts[p].stop = "timeout" =>
            receipts[p].elapsed + Millisecond > Least(Timeout, PollMax)

(* The prober leaves the TTY in the mode it found on every way out but two: *)
(* it is killed, or it could not make the guard of the mode it had just set *)
(* (the end "unguarded").                                                   *)
RawModeIsUndone == pc \in {"prepare", "attempt", "open", "done", "failed"} => mode = "cooked"

(* Every probe ends, whatever the terminal does. *)
ProbeEnds == <>(pc \in Ended)
=============================================================================
