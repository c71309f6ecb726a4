--------------------------- MODULE TtyProbeProofs ---------------------------
(***************************************************************************)
(* Proofs about TtyProbe for every terminal, every leftover of an earlier  *)
(* process, all timeouts and limits, with and without tmux.                *)
(***************************************************************************)
EXTENDS TtyProbe, TLAPS, SequenceTheorems, WellFoundedInduction

(* The deadline of a probe's own exchange is at most the configured one.   *)
(* While poll runs its wait ends less than a millisecond before that       *)
(* deadline, or it is the longest a poll call can have. Only readiness     *)
(* exchanges are tried again.                                              *)
Bounded ==
    /\ pc = "attempt" => stage = "readiness"
    /\ stage = "exchange" => left <= Timeout
    /\ pc = "poll" /\ stage = "exchange" =>
         left < wait + Millisecond \/ left + PollMax <= Timeout + wait

(* The TTY is raw only inside an exchange, and the guard of an exchange    *)
(* restores the mode that was found before the first one.                  *)
Modes ==
    /\ pc \in {"prepare", "attempt", "open", "raw", "done"} => mode = "cooked"
    /\ pc \in {"raw", "write", "loop", "poll"} => saved = "cooked"
    /\ pc = "failed" => mode = "cooked"

Typed == TypeOK /\ Bounded /\ Modes

-----------------------------------------------------------------------------
(* Operators.                                                              *)

LEMMA ConstantTypes ==
    /\ Timeout \in Nat \ {0} /\ TransportTimeout \in Nat /\ AttemptTimeout \in Nat
    /\ Millisecond \in Nat \ {0} /\ PollMax \in Nat /\ Millisecond <= PollMax
    /\ MaxResponse \in Nat
  BY TtyAssumption

LEMMA LeastIs ==
    ASSUME NEW a \in Nat, NEW b \in Nat
    PROVE  Least(a, b) \in Nat /\ Least(a, b) <= a /\ Least(a, b) <= b /\ Least(a, b) \in {a, b}
  BY DEF Least

(* The wait that poll is given: less than a millisecond short of what is   *)
(* left, or the longest there is.                                          *)
LEMMA RemainingIs ==
    ASSUME left \in Nat
    PROVE  /\ RemainingTimeout \in 0..PollMax
           /\ left < RemainingTimeout + Millisecond \/ RemainingTimeout = PollMax
<1> DEFINE whole == left - (left % Millisecond)
<1>1. left % Millisecond \in Nat /\ left % Millisecond < Millisecond
  BY ConstantTypes
<1>2. whole \in Int /\ left < whole + Millisecond
  BY <1>1, ConstantTypes
<1>3. RemainingTimeout = IF whole < Millisecond THEN Millisecond ELSE Least(whole, PollMax)
  BY DEF RemainingTimeout
<1> HIDE DEF whole
<1>4. CASE whole < Millisecond
  BY <1>2, <1>3, <1>4, ConstantTypes
<1>5. CASE ~(whole < Millisecond)
  <2>1. whole \in Nat
    BY <1>2, <1>5, ConstantTypes
  <2>2. /\ Least(whole, PollMax) \in Nat /\ Least(whole, PollMax) <= PollMax
        /\ Least(whole, PollMax) \in {whole, PollMax}
    BY <2>1, ConstantTypes, LeastIs
  <2>3. QED
    BY <1>2, <1>3, <1>5, <2>1, <2>2, ConstantTypes
<1>6. QED
  BY <1>4, <1>5

LEMMA AssessmentType ==
    \A resp : AssessKgp(resp) \in Assessments /\ AssessSixel(resp) \in Assessments
<1> SUFFICES ASSUME NEW resp
             PROVE  AssessKgp(resp) \in Assessments /\ AssessSixel(resp) \in Assessments
  OBVIOUS
<1>1. AssessSixel(resp) \in Assessments
  BY DEF AssessSixel, Assessments
<1>2. AssessKgp(resp) \in Assessments
  <2> DEFINE barrier == Answers(resp, "da1")
             conformant == /\ resp[First(Matching(resp))].good
                           /\ First(Matching(resp)) < First(barrier)
             some == CASE barrier = {} -> "inconclusive"
                       [] barrier # {} /\ conformant -> "conformant"
                       [] OTHER -> "nonconformant"
  <2>1. some \in {"conformant", "nonconformant", "inconclusive"}
    OBVIOUS
  <2>2. AssessKgp(resp) =
          CASE Matching(resp) # {} -> [availability |-> "available", conformance |-> some]
            [] Matching(resp) = {} /\ Answers(resp, "kgp") # {} ->
                 [availability |-> "available", conformance |-> "nonconformant"]
            [] Answers(resp, "kgp") = {} /\ barrier # {} ->
                 [availability |-> "unavailable", conformance |-> "not_applicable"]
            [] OTHER -> [availability |-> "unknown", conformance |-> "inconclusive"]
    BY DEF AssessKgp
  <2> HIDE DEF some
  <2>3. QED
    BY <2>1, <2>2 DEF Assessments
<1>3. QED
  BY <1>1, <1>2

(* StopWhen names no reason exactly when there is no barrier. *)
LEMMA StopIs ==
    \A resp : /\ StopWhen(resp) \in Barriers \cup {"none"}
              /\ StopWhen(resp) = "none" <=> Answers(resp, "da1") = {}
  BY DEF StopWhen, Barriers

(* Every piece a terminal sends has its type. *)
LEMMA HalvesType ==
    ASSUME NEW kind \in {"kgp", "da1"}, NEW id \in Nat, NEW good \in BOOLEAN
    PROVE  Halves(kind, id, good) \in Seq(Pieces)
<1>1. /\ [part |-> 1, kind |-> kind, id |-> id, good |-> good] \in Pieces
      /\ [part |-> 2, kind |-> kind, id |-> id, good |-> good] \in Pieces
  BY DEF Pieces
<1>2. QED
  BY <1>1 DEF Halves

-----------------------------------------------------------------------------
(* Types.                                                                  *)

(* What Return leaves, given the reason it is called with. *)
LEMMA ReturnType ==
    ASSUME Typed, NEW reason \in StopReasons, pc \in {"loop", "poll"}, Return(reason)
    PROVE  Typed'
<1>1. /\ UNCHANGED <<term, asked, wire, keys, hung, input, saved, budget>>
      /\ response' = <<>> /\ wait' = 0
  BY DEF Return, terminal
<1>2. mode' = "cooked"
  BY DEF Return, Typed, Modes
<1>3. CASE stage = "readiness" /\ UNCHANGED <<probe, receipts>>
  <2>1. \/ readiness' = "ready" /\ stage' = "exchange" /\ left' = Timeout /\ pc' = "open"
        \/ pc' = "attempt" /\ left' = 0 /\ UNCHANGED <<readiness, stage>>
    BY <1>3 DEF Return
  <2>2. TypeOK'
    BY <1>1, <1>2, <1>3, <2>1, TtyAssumption DEF Typed, TypeOK, Running
  <2>3. Bounded' /\ Modes'
    BY <1>2, <1>3, <2>1, TtyAssumption DEF Typed, TypeOK, Bounded, Modes
  <2>4. QED
    BY <2>2, <2>3 DEF Typed
<1>4. CASE stage = "exchange"
  <2>1. /\ receipts' = [receipts EXCEPT ![probe] = Receipt(reason)]
        /\ probe' = "sixel" /\ pc' \in {"prepare", "done"}
        /\ left' = 0 /\ UNCHANGED <<readiness, stage>>
    BY <1>4 DEF Return
  <2>2. Timeout - left \in 0..Timeout
    BY <1>4, TtyAssumption DEF Typed, TypeOK, Bounded
  <2>3. Receipt(reason) \in Receipts
    BY <2>2, AssessmentType DEF Receipt, Receipts, Typed, TypeOK
  <2>4. receipts' \in [{"kgp", "sixel"} -> Receipts \cup {NoReceipt}]
    BY <2>1, <2>3 DEF Typed, TypeOK
  <2>5. TypeOK'
    BY <1>1, <1>2, <2>1, <2>4, ConstantTypes DEF Typed, TypeOK, Running, Ended
  <2>6. Bounded' /\ Modes'
    BY <1>2, <1>4, <2>1, ConstantTypes DEF Typed, Bounded, Modes
  <2>7. QED
    BY <2>5, <2>6 DEF Typed
<1>5. QED
  BY <1>3, <1>4 DEF Return

(* The steps of the terminal, of the user and of the clocks. *)
LEMMA OutsideType ==
    ASSUME Typed, Answer \/ Swallow \/ Arrive \/ TypeKey \/ HangUp \/ Tick PROVE Typed'
<1>1. CASE Answer
  <2> DEFINE q == Head(asked)
             da1 == Halves("da1", 0, term.sixel)
             kgp == IF q.kind = "kgp" /\ term.kgp # "absent"
                    THEN Halves("kgp", IF term.echo THEN q.id ELSE 0, term.kgp = "ok")
                    ELSE <<>>
  <2>1. asked # <<>> /\ asked \in Seq(Queries) /\ term \in Terminal /\ wire \in Seq(Pieces)
    BY <1>1, TtyAssumption DEF Answer, Typed, TypeOK
  <2>2. q \in Queries /\ Tail(asked) \in Seq(Queries)
    BY <2>1
  <2>3. da1 \in Seq(Pieces)
    BY <2>1, HalvesType DEF Terminal
  <2>4. kgp \in Seq(Pieces)
    <3>1. (IF term.echo THEN q.id ELSE 0) \in Nat /\ (term.kgp = "ok") \in BOOLEAN
      BY <2>2 DEF Queries
    <3>2. Halves("kgp", IF term.echo THEN q.id ELSE 0, term.kgp = "ok") \in Seq(Pieces)
      BY <3>1, HalvesType
    <3>3. QED
      BY <3>2
  <2>5. wire' = wire \o (IF term.late THEN da1 \o kgp ELSE kgp \o da1)
    BY <1>1 DEF Answer
  <2> HIDE DEF da1, kgp
  <2>6. wire' \in Seq(Pieces)
    BY <2>1, <2>3, <2>4, <2>5
  <2>7. asked' \in Seq(Queries)
    BY <1>1, <2>2 DEF Answer
  <2>8. UNCHANGED <<term, keys, hung, input, mode, saved, pc, probe, stage, readiness, response,
                    timers, receipts>>
    BY <1>1 DEF Answer
  <2>9. QED
    BY <2>6, <2>7, <2>8 DEF Typed, TypeOK, Bounded, Modes, timers
<1>2. CASE Swallow
  <2>1. asked' \in Seq(Queries)
    BY <1>2 DEF Swallow, Typed, TypeOK
  <2>2. QED
    BY <1>2, <2>1 DEF Swallow, Typed, TypeOK, Bounded, Modes, timers
<1>3. CASE Arrive
  <2>1. input' \in Seq(Pieces) /\ wire' \in Seq(Pieces)
    BY <1>3 DEF Arrive, Typed, TypeOK
  <2>2. QED
    BY <1>3, <2>1 DEF Arrive, Typed, TypeOK, Bounded, Modes, timers
<1>4. CASE TypeKey
  <2>1. Key \in Pieces
    BY DEF Key, Pieces
  <2>2. wire' \in Seq(Pieces)
    BY <1>4, <2>1 DEF TypeKey, Typed, TypeOK
  <2>3. keys' \in 0..term.typing
    <3>1. term.typing \in Nat /\ keys \in 0..term.typing
      BY TtyAssumption DEF Typed, TypeOK, Terminal
    <3>2. QED
      BY <1>4, <3>1 DEF TypeKey
  <2>4. QED
    BY <1>4, <2>2, <2>3 DEF TypeKey, Typed, TypeOK, Bounded, Modes, timers
<1>5. CASE HangUp
  BY <1>5 DEF HangUp, Typed, TypeOK, Bounded, Modes, timers
<1>6. CASE Tick
  <2>1. UNCHANGED <<term, asked, wire, keys, hung, input, mode, saved, pc, probe, stage, readiness,
                    response, receipts>>
    BY <1>6 DEF Tick, terminal
  <2>2. left \in Nat /\ wait \in Nat /\ budget \in Nat
    BY ConstantTypes DEF Typed, TypeOK
  <2>3. /\ left' = left /\ wait' = wait
        \/ /\ left' = IF left > 0 THEN left - 1 ELSE 0
           /\ wait' = IF wait > 0 THEN wait - 1 ELSE 0
    BY <1>6 DEF Tick
  <2>4. budget' = budget \/ (budget > 0 /\ budget' = budget - 1)
    BY <1>6, <2>2 DEF Tick
  <2>5. /\ left' \in Nat /\ left' <= left
        /\ wait' \in Nat /\ wait' <= wait
        /\ budget' \in Nat /\ budget' <= budget
    BY <2>2, <2>3, <2>4
  <2>6. TypeOK'
    <3>1. left' \in 0..Timeout \cup 0..AttemptTimeout
      BY <2>2, <2>5, ConstantTypes DEF Typed, TypeOK
    <3>2. wait' \in 0..PollMax /\ budget' \in 0..TransportTimeout
      BY <2>2, <2>5, ConstantTypes DEF Typed, TypeOK
    <3>3. QED
      BY <2>1, <3>1, <3>2 DEF Typed, TypeOK
  <2>7. Bounded'
    <3>1. ASSUME left < wait + Millisecond \/ left + PollMax <= Timeout + wait
          PROVE  left' < wait' + Millisecond \/ left' + PollMax <= Timeout + wait'
      BY <2>2, <2>3, <3>1, ConstantTypes
    <3>2. left <= Timeout => left' <= Timeout
      BY <2>2, <2>5, ConstantTypes
    <3>3. QED
      BY <2>1, <3>1, <3>2 DEF Typed, Bounded
  <2>8. QED
    BY <2>1, <2>6, <2>7 DEF Typed, Modes
<1>7. QED
  BY <1>1, <1>2, <1>3, <1>4, <1>5, <1>6

(* A process that ends has its first state again, but for the mode. *)
LEMMA ForgetType ==
    ASSUME Typed, Forget, UNCHANGED <<terminal, input>>, pc' \in {"failed", "unguarded", "killed"},
           mode' \in {"cooked", "raw"}, pc' = "failed" => mode' = "cooked"
    PROVE  Typed'
<1>1. TypeOK'
  BY ConstantTypes DEF Forget, Typed, TypeOK, Ended, terminal
<1>2. Bounded' /\ Modes'
  BY ConstantTypes DEF Forget, Bounded, Modes
<1>3. QED
  BY <1>1, <1>2 DEF Typed

(* The steps of the prober that do not end an exchange. *)
LEMMA ProberType ==
    ASSUME Typed,
           \/ Prepare \/ Attempt \/ OpenTty \/ SetRaw \/ WriteRequest
           \/ ReadBytes \/ Interrupt \/ Fail \/ Kill
    PROVE  Typed'
<1> USE TtyAssumption
<1>1. CASE Prepare
  BY SMTT(30), <1>1 DEF Prepare, Typed, TypeOK, Bounded, Modes, terminal, Running
<1>2. CASE Attempt
  <2>1. budget \in Nat /\ AttemptTimeout \in Nat
    BY DEF Typed, TypeOK
  <2>2. \/ stage' = "exchange" /\ left' = Timeout
        \/ stage' = stage /\ left' = Least(budget, AttemptTimeout)
    BY <1>2 DEF Attempt
  <2>3. left' \in 0..Timeout \cup 0..AttemptTimeout
    <3>1. Least(budget, AttemptTimeout) \in 0..AttemptTimeout
      <4>1. Least(budget, AttemptTimeout) \in Nat
        BY <2>1, LeastIs
      <4>2. Least(budget, AttemptTimeout) <= AttemptTimeout
        BY <2>1, LeastIs
      <4>3. QED
        BY <2>1, <4>1, <4>2
    <3>2. QED
      BY <2>2, <3>1, ConstantTypes DEF Typed, TypeOK
  <2>4. pc' = "open" /\ UNCHANGED <<terminal, input, mode, saved, probe, readiness, response,
                                    wait, budget, receipts>>
    BY <1>2 DEF Attempt
  <2>5. stage' = "exchange" => left' <= Timeout
    BY <1>2, <2>2, ConstantTypes DEF Attempt, Typed, Bounded
  <2>6. QED
    BY <1>2, <2>2, <2>3, <2>4, <2>5 DEF Attempt, Typed, TypeOK, Bounded, Modes, terminal, Running
<1>3. CASE OpenTty
  BY <1>3 DEF OpenTty, Typed, TypeOK, Bounded, Modes, terminal, timers, Running
<1>4. CASE SetRaw
  <2>1. CASE pc' = "unguarded" /\ Forget
    BY <1>4, <2>1, ForgetType DEF SetRaw, Ended
  <2>2. CASE pc' = "write" /\ UNCHANGED <<saved, probe, stage, readiness, response, timers, receipts>>
    BY <1>4, <2>2 DEF SetRaw, Typed, TypeOK, Bounded, Modes, terminal, timers, Running
  <2>3. QED
    BY <1>4, <2>1, <2>2 DEF SetRaw
<1>5. CASE WriteRequest
  <2>1. [kind |-> IF stage = "exchange" /\ probe = "kgp" THEN "kgp" ELSE "da1", id |-> Own]
          \in Queries
    BY DEF Queries, Own
  <2>2. asked' \in Seq(Queries)
    BY <1>5, <2>1 DEF WriteRequest, Typed, TypeOK
  <2>3. response' \in Seq(Pieces) /\ Len(response') <= MaxResponse
    BY <1>5 DEF WriteRequest
  <2>4. QED
    BY <1>5, <2>2, <2>3 DEF WriteRequest, Typed, TypeOK, Bounded, Modes, timers, Running
<1>6. CASE ReadBytes
  <2> DEFINE n == Least(Len(input), MaxResponse - Len(response))
  <2>1. input \in Seq(Pieces) /\ response \in Seq(Pieces) /\ Len(response) <= MaxResponse
    BY DEF Typed, TypeOK
  <2>2. n \in Nat /\ n <= Len(input) /\ n <= MaxResponse - Len(response)
    <3>1. Len(input) \in Nat /\ MaxResponse - Len(response) \in Nat
      BY <2>1, ConstantTypes
    <3>2. QED
      BY <3>1, LeastIs
  <2>3. /\ response' = response \o SubSeq(input, 1, n)
        /\ input' = SubSeq(input, n + 1, Len(input))
    BY <1>6 DEF ReadBytes
  <2> HIDE DEF n
  <2>4. SubSeq(input, 1, n) \in Seq(Pieces) /\ Len(SubSeq(input, 1, n)) = n
    BY <2>1, <2>2
  <2>5. response' \in Seq(Pieces) /\ Len(response') <= MaxResponse
    BY <2>1, <2>2, <2>3, <2>4
  <2>6. input' \in Seq(Pieces)
    BY <2>1, <2>2, <2>3
  <2>7. wait' \in 0..PollMax
    BY <1>6, ConstantTypes DEF ReadBytes
  <2>8. QED
    BY <1>6, <2>5, <2>6, <2>7 DEF ReadBytes, Typed, TypeOK, Bounded, Modes, terminal, timers, Running
<1>7. CASE Interrupt
  BY <1>7 DEF Interrupt, Typed, TypeOK, Bounded, Modes, terminal, timers, Running
<1>8. CASE Fail
  <2>1. mode' = "cooked"
    BY <1>8 DEF Fail, Guarded, Typed, Modes
  <2>2. QED
    BY <1>8, <2>1, ForgetType DEF Fail, Ended
<1>9. CASE Kill
  BY <1>9, ForgetType DEF Kill, Ended, Typed, TypeOK
<1>10. QED
  BY <1>1, <1>2, <1>3, <1>4, <1>5, <1>6, <1>7, <1>8, <1>9

(* How the loop of an exchange goes on: it returns with a barrier that is  *)
(* there, with a limit or deadline that is reached, or it waits.           *)
LEMMA CollectCases ==
    ASSUME Collect
    PROVE  \/ /\ Answers(response, "da1") # {}
              /\ \E reason \in Barriers : Return(reason)
           \/ /\ Answers(response, "da1") = {} /\ Return("resource_limit")
           \/ /\ Answers(response, "da1") = {} /\ left = 0 /\ Return("timeout")
           \/ /\ Answers(response, "da1") = {} /\ left > 0
              /\ wait' = RemainingTimeout /\ pc' = "poll"
              /\ UNCHANGED <<terminal, input, mode, saved, probe, stage, readiness, response,
                             left, budget, receipts>>
<1>1. CASE StopWhen(response) # "none"
  <2>1. StopWhen(response) \in Barriers /\ Return(StopWhen(response))
    BY <1>1, StopIs DEF Collect
  <2>2. Answers(response, "da1") # {}
    BY <1>1, StopIs
  <2>3. QED
    BY <2>1, <2>2
<1>2. CASE StopWhen(response) = "none"
  BY <1>2, StopIs DEF Collect
<1>3. QED
  BY <1>1, <1>2

LEMMA CollectType == ASSUME Typed, Collect PROVE Typed'
<1>1. pc \in {"loop", "poll"}
  BY DEF Collect
<1>2. ASSUME NEW reason \in StopReasons, Return(reason) PROVE Typed'
  BY <1>1, <1>2, ReturnType
<1>3. CASE /\ left > 0 /\ wait' = RemainingTimeout /\ pc' = "poll"
           /\ UNCHANGED <<terminal, input, mode, saved, probe, stage, readiness, response,
                          left, budget, receipts>>
  <2>1. left \in Nat
    BY ConstantTypes DEF Typed, TypeOK
  <2>2. wait' \in 0..PollMax
    BY <1>3, <2>1, RemainingIs
  <2>3. stage = "exchange" => left < wait' + Millisecond \/ left + PollMax <= Timeout + wait'
    <3>1. CASE left < wait' + Millisecond
      BY <3>1
    <3>2. CASE wait' = PollMax
      BY <2>1, <3>2, ConstantTypes DEF Typed, Bounded
    <3>3. QED
      BY <1>3, <2>1, <3>1, <3>2, RemainingIs
  <2>4. pc = "loop"
    BY DEF Collect
  <2>5. QED
    BY <1>3, <2>2, <2>3, <2>4 DEF Typed, TypeOK, Bounded, Modes, terminal, Running
<1>4. QED
  BY <1>2, <1>3, CollectCases DEF StopReasons

LEMMA TypedStep == ASSUME Typed, [Next]_vars PROVE Typed'
<1>1. CASE PollExpires \/ ReadEof
  BY <1>1, ReturnType DEF PollExpires, ReadEof, StopReasons
<1>2. CASE UNCHANGED vars
  BY <1>2 DEF vars, terminal, timers, Typed, TypeOK, Bounded, Modes
<1>3. QED
  BY <1>1, <1>2, CollectType, ProberType, OutsideType DEF Next, Work

LEMMA TypedInit == Init => Typed
<1> SUFFICES ASSUME Init PROVE Typed
  OBVIOUS
<1>1. asked \in Seq(Queries)
  <2>1. [kind : {"kgp", "da1"}, id : Nat \ {Own}] \subseteq Queries
    BY DEF Queries
  <2>2. QED
    BY <2>1, TtyAssumption, SeqMonotonic DEF Init, Terminal
<1>2. receipts \in [{"kgp", "sixel"} -> Receipts \cup {NoReceipt}]
  BY DEF Init
<1>3. TypeOK
  <2>1. /\ 0 \in 0..Timeout /\ 0 \in 0..PollMax /\ 0 \in 0..TransportTimeout
        /\ 0 \in 0..term.typing
    BY ConstantTypes, TtyAssumption DEF Init, Terminal
  <2>2. response \in Seq(Pieces) /\ Len(response) <= MaxResponse
    BY ConstantTypes DEF Init
  <2>3. wire \in Seq(Pieces) /\ input \in Seq(Pieces)
    BY DEF Init
  <2>4. QED
    BY <1>1, <1>2, <2>1, <2>2, <2>3 DEF Init, TypeOK, Running
<1>4. Bounded /\ Modes
  BY ConstantTypes DEF Init, Bounded, Modes
<1>5. QED
  BY <1>3, <1>4 DEF Typed

LEMMA AlwaysTyped == Spec => []Typed
  BY TypedInit, TypedStep, PTL DEF Spec

(* Types of the TTY, the exchange and both receipts; no elapsed time is    *)
(* above the configured timeout.                                           *)
THEOREM ProbeTypeCorrect == Spec => []TypeOK
<1>1. Typed => TypeOK
  BY DEF Typed
<1>2. QED
  BY <1>1, AlwaysTyped, PTL

(* On every way out but a kill and the failure to make the guard, the      *)
(* prober leaves the TTY in the mode it found (RawModeGuard).              *)
THEOREM RawModeCorrect == Spec => []RawModeIsUndone
<1>1. Typed => RawModeIsUndone
  BY DEF Typed, Modes, RawModeIsUndone
<1>2. QED
  BY <1>1, AlwaysTyped, PTL

-----------------------------------------------------------------------------
(* How receipts come about.                                                *)

(* poll is called only while no barrier was seen. *)
Waiting == pc = "poll" => Answers(response, "da1") = {}

LEMMA WaitingStep == ASSUME Typed, Waiting, [Next]_vars PROVE Waiting'
<1>1. CASE Collect
  <2>1. ASSUME NEW reason, Return(reason) PROVE pc' # "poll"
    BY <2>1 DEF Return
  <2>2. QED
    BY <1>1, <2>1, CollectCases DEF Waiting, Answers
<1>2. CASE PollExpires \/ ReadEof
  BY <1>2 DEF PollExpires, ReadEof, Return, Waiting
<1>3. CASE Prepare \/ Attempt \/ OpenTty \/ SetRaw \/ WriteRequest \/ ReadBytes \/ Interrupt
           \/ Fail \/ Kill
  BY <1>3 DEF Prepare, Attempt, OpenTty, SetRaw, WriteRequest, ReadBytes, Interrupt, Fail, Kill,
     Waiting
<1>4. CASE Answer \/ Swallow \/ Arrive \/ TypeKey \/ HangUp \/ Tick \/ UNCHANGED vars
  <2>1. UNCHANGED <<pc, response>>
    BY <1>4 DEF Answer, Swallow, Arrive, TypeKey, HangUp, Tick, vars
  <2>2. QED
    BY <2>1 DEF Waiting, Answers
<1>5. QED
  BY <1>1, <1>2, <1>3, <1>4 DEF Next, Work

LEMMA AlwaysWaiting == Spec => []Waiting
<1>1. Init => Waiting
  BY DEF Init, Waiting
<1>2. QED
  BY <1>1, WaitingStep, AlwaysTyped, PTL DEF Spec

(* No step changes the terminal. *)
LEMMA TermStays == ASSUME [Next]_vars PROVE term' = term
  BY DEF Next, Work, Prepare, Attempt, OpenTty, SetRaw, WriteRequest, Collect, Return, ReadBytes,
     PollExpires, ReadEof, Interrupt, Fail, Kill, Tick, Answer, Swallow, Arrive, TypeKey, HangUp,
     vars, terminal

(* A process that fails loses its receipts; otherwise a receipt is only    *)
(* ever made by a probe's exchange that returns, with a                    *)
(* barrier as its reason exactly when one was collected, and with a        *)
(* timeout only near the deadline or when a longest poll call expired.     *)
LEMMA ReceiptStep ==
    ASSUME Typed, Waiting, [Next]_vars
    PROVE  \/ receipts' \in {receipts, [p \in {"kgp", "sixel"} |-> NoReceipt]}
           \/ \E reason \in StopReasons :
                /\ stage = "exchange" /\ pc \in {"loop", "poll"}
                /\ receipts' = [receipts EXCEPT ![probe] = Receipt(reason)]
                /\ reason \in Barriers <=> Answers(response, "da1") # {}
                /\ reason = "timeout" => left < Millisecond \/ left + PollMax <= Timeout
<1>1. ASSUME NEW reason, Return(reason)
      PROVE  \/ UNCHANGED receipts
             \/ /\ stage = "exchange"
                /\ receipts' = [receipts EXCEPT ![probe] = Receipt(reason)]
  BY <1>1 DEF Return
<1>2. CASE Collect
  <2>1. pc = "loop"
    BY <1>2 DEF Collect
  <2>2. CASE Answers(response, "da1") # {} /\ \E reason \in Barriers : Return(reason)
    BY <1>1, <2>1, <2>2 DEF StopReasons, Barriers
  <2>3. CASE Answers(response, "da1") = {} /\ Return("resource_limit")
    BY <1>1, <2>1, <2>3 DEF StopReasons, Barriers
  <2>4. CASE Answers(response, "da1") = {} /\ left = 0 /\ Return("timeout")
    BY <1>1, <2>1, <2>4, ConstantTypes DEF StopReasons, Barriers
  <2>5. QED
    BY <1>2, <2>2, <2>3, <2>4, CollectCases
<1>3. CASE PollExpires
  <2>1. pc = "poll" /\ wait = 0 /\ Return("timeout") /\ Answers(response, "da1") = {}
    BY <1>3 DEF PollExpires, Waiting
  <2>2. stage = "exchange" => left < Millisecond \/ left + PollMax <= Timeout
    BY <2>1, ConstantTypes DEF Typed, TypeOK, Bounded
  <2>3. QED
    BY <1>1, <2>1, <2>2 DEF StopReasons, Barriers
<1>4. CASE ReadEof
  <2>1. pc = "poll" /\ Return("end_of_input") /\ Answers(response, "da1") = {}
    BY <1>4 DEF ReadEof, Waiting
  <2>2. QED
    BY <1>1, <2>1 DEF StopReasons, Barriers
<1>5. CASE Prepare \/ Attempt \/ OpenTty \/ SetRaw \/ WriteRequest \/ ReadBytes \/ Interrupt
           \/ Fail \/ Kill
  BY <1>5 DEF Prepare, Attempt, OpenTty, SetRaw, WriteRequest, ReadBytes, Interrupt, Fail, Kill,
     Forget
<1>6. CASE Answer \/ Swallow \/ Arrive \/ TypeKey \/ HangUp \/ Tick \/ UNCHANGED vars
  BY <1>6 DEF Answer, Swallow, Arrive, TypeKey, HangUp, Tick, vars
<1>7. QED
  BY <1>2, <1>3, <1>4, <1>5, <1>6 DEF Next, Work

(* What is on record for a probe after a receipt was made. *)
LEMMA ReceiptMade ==
    ASSUME Typed, NEW reason \in StopReasons,
           receipts' = [receipts EXCEPT ![probe] = Receipt(reason)],
           NEW p \in {"kgp", "sixel"}
    PROVE  /\ p # probe => receipts'[p] = receipts[p]
           /\ p = probe =>
                /\ receipts'[p].stop = reason
                /\ receipts'[p].elapsed = Timeout - left
                /\ receipts'[p].assessment =
                     IF p = "kgp" THEN AssessKgp(response) ELSE AssessSixel(response)
  BY DEF Receipt, Typed, TypeOK

(* remaining_timeout rounds down and poll takes 16 bits, so an exchange may *)
(* stop for a timeout before its deadline; but never by a millisecond, nor  *)
(* before a whole poll call of the longest kind expired (collect_until).    *)
THEOREM TimeoutCorrect == Spec => []TimeoutIsNotEarly
<1>1. Init => TimeoutIsNotEarly
  BY DEF Init, TimeoutIsNotEarly, NoReceipt
<1>2. ASSUME Typed, Waiting, TimeoutIsNotEarly, [Next]_vars PROVE TimeoutIsNotEarly'
  <2> SUFFICES ASSUME NEW p \in {"kgp", "sixel"}, receipts'[p].stop = "timeout"
               PROVE  receipts'[p].elapsed + Millisecond > Least(Timeout, PollMax)
    BY DEF TimeoutIsNotEarly, Least
  <2>1. ASSUME receipts'[p] = receipts[p]
        PROVE  receipts'[p].elapsed + Millisecond > Least(Timeout, PollMax)
    BY <1>2, <2>1 DEF TimeoutIsNotEarly
  <2>2. CASE receipts' \in {receipts, [q \in {"kgp", "sixel"} |-> NoReceipt]}
    BY <2>1, <2>2 DEF NoReceipt
  <2>3. ASSUME NEW reason \in StopReasons, stage = "exchange",
               receipts' = [receipts EXCEPT ![probe] = Receipt(reason)],
               reason = "timeout" => left < Millisecond \/ left + PollMax <= Timeout
        PROVE  receipts'[p].elapsed + Millisecond > Least(Timeout, PollMax)
    <3>1. CASE p # probe
      BY <1>2, <2>1, <2>3, <3>1, ReceiptMade
    <3>2. CASE p = probe
      <4>1. receipts'[p].stop = reason /\ receipts'[p].elapsed = Timeout - left
        BY <1>2, <2>3, <3>2, ReceiptMade
      <4>2. left \in Nat /\ left <= Timeout
        BY <1>2, <2>3, ConstantTypes DEF Typed, TypeOK, Bounded
      <4>3. Least(Timeout, PollMax) <= Timeout /\ Least(Timeout, PollMax) <= PollMax
        BY ConstantTypes, LeastIs
      <4>4. Least(Timeout, PollMax) \in Nat
        BY ConstantTypes, LeastIs
      <4>5. QED
        BY <2>3, <4>1, <4>2, <4>3, <4>4, ConstantTypes
    <3>3. QED
      BY <3>1, <3>2
  <2>4. QED
    BY <1>2, <2>2, <2>3, ReceiptStep
<1>3. QED
  BY <1>1, <1>2, AlwaysTyped, AlwaysWaiting, PTL DEF Spec

-----------------------------------------------------------------------------
(* What a sequence of answers shows.                                       *)

(* A KGP reply or query with the image id of this process. *)
IsOwn(x) == x.kind = "kgp" /\ x.id = Own

(* A piece that says of the terminal what is true of it. *)
Genuine(x) ==
    /\ x.kind = "da1" => x.good = term.sixel
    /\ IsOwn(x) => term.echo /\ x.good = (term.kgp = "ok")

GenuinePieces == {x \in Pieces : Genuine(x)}
OtherPieces == {x \in Pieces : ~IsOwn(x)}
OtherQueries == {x \in Queries : ~IsOwn(x)}

(* Before every reply to this process comes a whole DA1 answer. *)
BarrierFirst(s) == \A i \in 1..Len(s) : IsOwn(s[i]) => \E j \in Answers(s, "da1") : j < i

(* The first index of a set of them is one, and no other is smaller. *)
LEMMA FirstIs ==
    ASSUME NEW S \in SUBSET Nat, S # {}
    PROVE  First(S) \in S /\ \A j \in S : First(S) <= j
<1>1. \E x \in S : \A y \in S : ~(<<y, x>> \in OpToRel(<, Nat))
  BY NatLessThanWellFounded, WFMin
<1>2. PICK x \in S : \A y \in S : ~(<<y, x>> \in OpToRel(<, Nat))
  BY <1>1
<1>3. \A y \in S : x <= y
  <2> SUFFICES ASSUME NEW y \in S, y < x PROVE FALSE
    OBVIOUS
  <2>1. <<y, x>> \in Nat \X Nat
    OBVIOUS
  <2>2. <<y, x>> \in OpToRel(<, Nat)
    BY <2>1 DEF OpToRel
  <2>3. QED
    BY <1>2, <2>2
<1>4. QED
  BY <1>3 DEF First

LEMMA AnswersAre ==
    ASSUME NEW s \in Seq(Pieces), NEW kind
    PROVE  /\ Answers(s, kind) \subseteq 1..Len(s) /\ Answers(s, kind) \subseteq Nat
           /\ Matching(s) \subseteq 1..Len(s) /\ Matching(s) \subseteq Nat
           /\ \A i \in Answers(s, kind) : s[i].kind = kind
           /\ \A i \in Matching(s) : IsOwn(s[i])
  BY DEF Answers, Matching, IsOwn

(* Without a barrier neither adapter reports "unavailable". *)
LEMMA UnavailableNeedsBarrier ==
    ASSUME NEW s, Answers(s, "da1") = {}
    PROVE  /\ AssessKgp(s).availability # "unavailable"
           /\ AssessSixel(s).availability # "unavailable"
<1>1. AssessSixel(s).availability # "unavailable"
  BY DEF AssessSixel
<1>2. AssessKgp(s).availability # "unavailable"
  BY DEF AssessKgp
<1>3. QED
  BY <1>1, <1>2

(* What the Sixel adapter says of a collected response is true. *)
LEMMA SixelIsTrue ==
    ASSUME term \in Terminal, NEW s \in Seq(GenuinePieces)
    PROVE  /\ AssessSixel(s).availability = "unavailable" => ~term.sixel
           /\ AssessSixel(s).conformance = "conformant" => term.sixel
<1>1. s \in Seq(Pieces)
  BY DEF GenuinePieces
<1>2. \A i \in Answers(s, "da1") : s[i].good = term.sixel
  <2> SUFFICES ASSUME NEW i \in Answers(s, "da1") PROVE s[i].good = term.sixel
    OBVIOUS
  <2>1. i \in 1..Len(s) /\ s[i].kind = "da1"
    BY <1>1, AnswersAre
  <2>2. s[i] \in GenuinePieces
    BY <2>1
  <2>3. QED
    BY <2>1, <2>2 DEF GenuinePieces, Genuine
<1>3. term.sixel \in BOOLEAN
  BY DEF Terminal
<1>4. CASE Answers(s, "da1") = {}
  BY <1>4 DEF AssessSixel
<1>5. CASE Answers(s, "da1") # {} /\ term.sixel
  <2>1. \E i \in Answers(s, "da1") : s[i].good
    BY <1>2, <1>5
  <2>2. AssessSixel(s) = [availability |-> "available", conformance |-> "conformant"]
    BY <2>1 DEF AssessSixel
  <2>3. QED
    BY <1>5, <2>2
<1>6. CASE Answers(s, "da1") # {} /\ ~term.sixel
  <2>1. \A i \in Answers(s, "da1") : ~s[i].good
    BY <1>2, <1>6
  <2>2. AssessSixel(s) = [availability |-> "unavailable", conformance |-> "not_applicable"]
    BY <1>6, <2>1 DEF AssessSixel
  <2>3. QED
    BY <1>6, <2>2
<1>7. QED
  BY <1>3, <1>4, <1>5, <1>6

(* A conformant KGP reply is an OK with this process's id, and it came     *)
(* before the barrier.                                                     *)
LEMMA KgpIsTrue ==
    ASSUME term \in Terminal, NEW s \in Seq(GenuinePieces),
           AssessKgp(s).conformance = "conformant"
    PROVE  term.kgp = "ok" /\ term.echo /\ ~BarrierFirst(s)
<1> DEFINE barrier == Answers(s, "da1")
           reply == First(Matching(s))
<1>1. s \in Seq(Pieces)
  BY DEF GenuinePieces
<1>2. Matching(s) # {} /\ barrier # {} /\ s[reply].good /\ reply < First(barrier)
  BY DEF AssessKgp
<1>3. reply \in Matching(s)
  BY <1>1, <1>2, AnswersAre, FirstIs
<1>4. /\ First(barrier) \in barrier
      /\ \A j \in barrier : First(barrier) <= j
      /\ barrier \subseteq Nat
  BY <1>1, <1>2, AnswersAre, FirstIs
<1>5. reply \in 1..Len(s) /\ IsOwn(s[reply])
  BY <1>1, <1>3, AnswersAre
<1> HIDE DEF reply, barrier
<1>6. s[reply] \in GenuinePieces
  BY <1>5
<1>7. term.echo /\ term.kgp = "ok"
  BY <1>2, <1>5, <1>6 DEF GenuinePieces, Genuine
<1>8. ASSUME BarrierFirst(s) PROVE FALSE
  <2>1. PICK j \in barrier : j < reply
    BY <1>5, <1>8 DEF BarrierFirst, barrier
  <2>2. j \in Nat /\ reply \in Nat /\ First(barrier) \in Nat
    <3>1. j \in Nat /\ First(barrier) \in Nat
      BY <1>4
    <3>2. reply \in Nat
      BY <1>1, <1>3, AnswersAre DEF reply
    <3>3. QED
      BY <3>1, <3>2
  <2>3. QED
    BY <1>2, <1>4, <2>1, <2>2
<1>9. QED
  BY <1>7, <1>8

(* A prefix keeps its barriers before its replies. *)
LEMMA BarrierPrefix ==
    ASSUME NEW s \in Seq(Pieces), NEW t \in Seq(Pieces), BarrierFirst(s \o t)
    PROVE  BarrierFirst(s)
<1> SUFFICES ASSUME NEW i \in 1..Len(s), IsOwn(s[i])
             PROVE  \E j \in Answers(s, "da1") : j < i
  BY DEF BarrierFirst
<1>1. /\ Len(s \o t) = Len(s) + Len(t)
      /\ \A k \in 1..Len(s) : (s \o t)[k] = s[k]
      /\ Len(s) \in Nat /\ Len(t) \in Nat
  BY ConcatProperties
<1>2. i \in 1..Len(s \o t) /\ IsOwn((s \o t)[i])
  BY <1>1 DEF IsOwn
<1>3. PICK j \in Answers(s \o t, "da1") : j < i
  BY <1>2 DEF BarrierFirst
<1>4. j \in 2..Len(s) /\ j \in 1..Len(s) /\ j - 1 \in 1..Len(s)
  BY <1>1, <1>3 DEF Answers
<1>5. j \in Answers(s, "da1")
  BY <1>1, <1>3, <1>4 DEF Answers
<1>6. QED
  BY <1>3, <1>5

(* More answers do not undo the barriers that are there, *)
LEMMA AnswersGrow ==
    ASSUME NEW s \in Seq(Pieces), NEW t \in Seq(Pieces)
    PROVE  Answers(s, "da1") \subseteq Answers(s \o t, "da1")
<1>1. /\ Len(s \o t) = Len(s) + Len(t)
      /\ \A k \in 1..Len(s) : (s \o t)[k] = s[k]
      /\ Len(s) \in Nat /\ Len(t) \in Nat
  BY ConcatProperties
<1>2. ASSUME NEW j \in Answers(s, "da1") PROVE j \in Answers(s \o t, "da1")
  <2>1. j \in 2..Len(s) /\ j \in 1..Len(s) /\ j - 1 \in 1..Len(s)
    BY <1>1 DEF Answers
  <2>2. QED
    BY <1>1, <2>1 DEF Answers
<1>3. QED
  BY <1>2

(* so what follows without a reply, or with a barrier in front of it,      *)
(* keeps barriers before replies.                                          *)
LEMMA BarrierExtend ==
    ASSUME NEW s \in Seq(Pieces), NEW t \in Seq(Pieces), BarrierFirst(s), BarrierFirst(t)
    PROVE  BarrierFirst(s \o t)
<1>1. /\ Len(s \o t) = Len(s) + Len(t)
      /\ \A k \in 1..Len(s) : (s \o t)[k] = s[k]
      /\ \A k \in 1..Len(t) : (s \o t)[Len(s) + k] = t[k]
      /\ Len(s) \in Nat /\ Len(t) \in Nat
  BY ConcatProperties
<1> SUFFICES ASSUME NEW i \in 1..Len(s \o t), IsOwn((s \o t)[i])
             PROVE  \E j \in Answers(s \o t, "da1") : j < i
  BY DEF BarrierFirst
<1>2. CASE i \in 1..Len(s)
  <2>1. \E j \in Answers(s, "da1") : j < i
    BY <1>1, <1>2 DEF BarrierFirst
  <2>2. QED
    BY <2>1, AnswersGrow
<1>3. CASE i \notin 1..Len(s)
  <2>1. i - Len(s) \in 1..Len(t) /\ i = Len(s) + (i - Len(s))
    BY <1>1, <1>3
  <2>2. PICK k \in 1..Len(t) : i = Len(s) + k
    BY <2>1
  <2>3. IsOwn(t[k])
    BY <1>1, <2>2
  <2>4. PICK j \in Answers(t, "da1") : j < k
    BY <2>3 DEF BarrierFirst
  <2>5. j \in 2..Len(t) /\ j \in 1..Len(t) /\ j - 1 \in 1..Len(t)
    BY <1>1, <2>4 DEF Answers
  <2>6. (s \o t)[Len(s) + j] = t[j] /\ (s \o t)[Len(s) + (j - 1)] = t[j - 1]
    BY <1>1, <2>5
  <2>7. Len(s) + j \in 2..Len(s \o t) /\ (Len(s) + j) - 1 = Len(s) + (j - 1)
    <3>1. Len(s) + j >= 2 /\ Len(s) + j <= Len(s \o t) /\ Len(s) + j \in Nat
      BY <1>1, <2>5
    <3>2. (Len(s) + j) - 1 = Len(s) + (j - 1)
      BY <1>1, <2>5
    <3>3. QED
      BY <1>1, <3>1, <3>2
  <2>8. Len(s) + j \in Answers(s \o t, "da1")
    BY <2>4, <2>6, <2>7 DEF Answers
  <2>9. Len(s) + j < i
    BY <1>1, <2>2, <2>4, <2>5
  <2>10. QED
    BY <2>8, <2>9
<1>4. QED
  BY <1>2, <1>3

LEMMA BarrierTrivial == ASSUME NEW s \in Seq(OtherPieces) PROVE BarrierFirst(s)
  BY DEF BarrierFirst, OtherPieces

-----------------------------------------------------------------------------
(* What is on the way and what was collected.                              *)

(* Until its KGP query is written nothing answers this process by its id.  *)
NotAsked ==
    /\ pc \in Running /\ probe = "kgp"
    /\ stage = "readiness" \/ pc \in {"prepare", "attempt", "open", "raw", "write"}

(* The KGP exchange itself. *)
Collecting == probe = "kgp" /\ stage = "exchange" /\ pc \in {"loop", "poll"}

(* All answers are true of the terminal. *)
Honest ==
    /\ wire \in Seq(GenuinePieces)
    /\ input \in Seq(GenuinePieces)
    /\ response \in Seq(GenuinePieces)

Fresh ==
    NotAsked => /\ asked \in Seq(OtherQueries)
                /\ wire \in Seq(OtherPieces)
                /\ input \in Seq(OtherPieces)

(* Of a terminal that answers KGP after DA1, what was collected and what   *)
(* can still be collected has a barrier before any reply.                  *)
Ordered ==
    /\ hung => input = <<>>
    /\ Collecting /\ term.late =>
         /\ BarrierFirst(response \o input)
         /\ ~hung => BarrierFirst((response \o input) \o wire)

(* Pieces only move from the wire to the input and on to the response, so  *)
(* what is true of all pieces stays true if it is true of new answers.     *)
LEMMA PiecesStep ==
    ASSUME Typed, [Next]_vars, NEW S \in SUBSET Pieces, Key \in S,
           wire \in Seq(S), input \in Seq(S), Answer => wire' \in Seq(S)
    PROVE  /\ wire' \in Seq(S) /\ input' \in Seq(S)
           /\ response \in Seq(S) => response' \in Seq(S)
<1> <<>> \in Seq(S)
  OBVIOUS
<1>1. CASE Answer
  BY <1>1 DEF Answer
<1>2. CASE Swallow \/ Tick \/ Prepare \/ Attempt \/ SetRaw \/ Interrupt \/ Fail \/ Kill
           \/ WriteRequest \/ UNCHANGED vars
  <2>1. UNCHANGED <<wire, input>> /\ response' \in {response, <<>>}
    BY <1>2 DEF Swallow, Tick, Prepare, Attempt, SetRaw, WriteRequest, Interrupt, Fail, Kill,
       Forget, vars, terminal
  <2>2. QED
    BY <2>1
<1>3. CASE Arrive
  <2>1. /\ wire # <<>> /\ wire' = Tail(wire) /\ input' = Append(input, Head(wire))
        /\ response' = response
    BY <1>3 DEF Arrive
  <2>2. Head(wire) \in S /\ Tail(wire) \in Seq(S)
    BY <2>1
  <2>3. Append(input, Head(wire)) \in Seq(S)
    BY <2>2
  <2>4. QED
    BY <2>1, <2>2, <2>3
<1>4. CASE TypeKey
  <2>1. wire' = Append(wire, Key) /\ input' = input /\ response' = response
    BY <1>4 DEF TypeKey
  <2>2. Append(wire, Key) \in Seq(S)
    BY AppendProperties
  <2>3. QED
    BY <2>1, <2>2
<1>5. CASE HangUp \/ OpenTty
  <2>1. wire' = wire /\ input' = <<>> /\ response' = response
    BY <1>5 DEF HangUp, OpenTty, terminal
  <2>2. QED
    BY <2>1
<1>7. CASE ReadBytes
  <2> DEFINE n == Least(Len(input), MaxResponse - Len(response))
  <2>1. n \in Nat /\ n <= Len(input)
    <3>1. Len(input) \in Nat /\ MaxResponse - Len(response) \in Nat
      BY ConstantTypes DEF Typed, TypeOK
    <3>2. QED
      BY <3>1, LeastIs
  <2>2. /\ response' = response \o SubSeq(input, 1, n)
        /\ input' = SubSeq(input, n + 1, Len(input))
        /\ wire' = wire
    BY <1>7 DEF ReadBytes, terminal
  <2> HIDE DEF n
  <2>3. SubSeq(input, 1, n) \in Seq(S) /\ SubSeq(input, n + 1, Len(input)) \in Seq(S)
    BY <2>1
  <2>4. QED
    BY <2>2, <2>3
<1>8. CASE Collect \/ PollExpires \/ ReadEof
  <2>1. UNCHANGED <<wire, input>> /\ response' \in {response, <<>>}
    <3>1. ASSUME NEW reason, Return(reason)
          PROVE  UNCHANGED <<wire, input>> /\ response' = <<>>
      BY <3>1 DEF Return, terminal
    <3>2. CASE Collect
      BY <3>1, <3>2, CollectCases DEF terminal
    <3>3. QED
      BY <1>8, <3>1, <3>2 DEF PollExpires, ReadEof
  <2>2. QED
    BY <2>1
<1>9. QED
  BY <1>1, <1>2, <1>3, <1>4, <1>5, <1>7, <1>8 DEF Next, Work

(* The answer to a query, as Answer puts it together. *)
Da1Answer == Halves("da1", 0, term.sixel)
KgpAnswer(q) ==
    IF q.kind = "kgp" /\ term.kgp # "absent"
    THEN Halves("kgp", IF term.echo THEN q.id ELSE 0, term.kgp = "ok")
    ELSE <<>>

LEMMA AnswerIs ==
    ASSUME Typed, Answer
    PROVE  /\ asked # <<>> /\ Head(asked) \in Queries /\ term \in Terminal
           /\ wire' = wire \o (IF term.late THEN Da1Answer \o KgpAnswer(Head(asked))
                               ELSE KgpAnswer(Head(asked)) \o Da1Answer)
<1>1. asked # <<>> /\ asked \in Seq(Queries) /\ term \in Terminal
  BY TtyAssumption DEF Answer, Typed, TypeOK
<1>2. Head(asked) \in Queries
  BY <1>1
<1>3. QED
  BY <1>1, <1>2 DEF Answer, Da1Answer, KgpAnswer

(* Answers are genuine, and echo an id only if they were asked with it. *)
LEMMA AnswerPieces ==
    ASSUME term \in Terminal, NEW q \in Queries
    PROVE  /\ Da1Answer \in Seq(GenuinePieces) /\ KgpAnswer(q) \in Seq(GenuinePieces)
           /\ Da1Answer \in Seq(OtherPieces)
           /\ ~IsOwn(q) => KgpAnswer(q) \in Seq(OtherPieces)
           /\ Len(Da1Answer) = 2 /\ 2 \in Answers(Da1Answer, "da1")
<1> DEFINE half(part) == [part |-> part, kind |-> "da1", id |-> 0, good |-> term.sixel]
           id == IF term.echo THEN q.id ELSE 0
           reply(part) == [part |-> part, kind |-> "kgp", id |-> id, good |-> (term.kgp = "ok")]
<1>1. \A part \in {1, 2} : half(part) \in GenuinePieces /\ half(part) \in OtherPieces
  BY DEF Terminal, Pieces, GenuinePieces, OtherPieces, Genuine, IsOwn
<1>2. Da1Answer = <<half(1), half(2)>>
  BY DEF Da1Answer, Halves
<1>3. Da1Answer \in Seq(GenuinePieces) /\ Da1Answer \in Seq(OtherPieces)
  BY <1>1, <1>2
<1>4. Len(Da1Answer) = 2 /\ Da1Answer[1] = half(1) /\ Da1Answer[2] = half(2)
  BY <1>2
<1>5. half(2) = [half(1) EXCEPT !.part = 2]
  OBVIOUS
<1>6. 2 \in Answers(Da1Answer, "da1")
  BY <1>4, <1>5 DEF Answers
<1>7. id \in Nat /\ (id = Own => term.echo /\ id = q.id)
  BY DEF Queries, Own
<1>8. reply(1) \in GenuinePieces /\ reply(2) \in GenuinePieces
  BY <1>7 DEF Pieces, GenuinePieces, Genuine, IsOwn
<1>9. q.kind = "kgp" /\ ~IsOwn(q) => reply(1) \in OtherPieces /\ reply(2) \in OtherPieces
  BY <1>7 DEF Pieces, OtherPieces, IsOwn
<1>10. KgpAnswer(q) = <<>> \/ (q.kind = "kgp" /\ KgpAnswer(q) = <<reply(1), reply(2)>>)
  BY DEF KgpAnswer, Halves
<1> HIDE DEF half, reply
<1>11. KgpAnswer(q) \in Seq(GenuinePieces)
  <2>1. <<reply(1), reply(2)>> \in Seq(GenuinePieces)
    BY <1>8
  <2>2. <<>> \in Seq(GenuinePieces)
    OBVIOUS
  <2>3. CASE KgpAnswer(q) = <<>>
    BY <2>2, <2>3, Zenon
  <2>4. CASE KgpAnswer(q) = <<reply(1), reply(2)>>
    BY <2>1, <2>4, Zenon
  <2>5. QED
    BY <1>10, <2>3, <2>4
<1>12. ~IsOwn(q) => KgpAnswer(q) \in Seq(OtherPieces)
  <2>1. q.kind = "kgp" /\ ~IsOwn(q) => <<reply(1), reply(2)>> \in Seq(OtherPieces)
    BY <1>9
  <2>2. <<>> \in Seq(OtherPieces)
    OBVIOUS
  <2>3. CASE KgpAnswer(q) = <<>>
    BY <2>2, <2>3, Zenon
  <2>4. CASE q.kind = "kgp" /\ KgpAnswer(q) = <<reply(1), reply(2)>>
    BY <2>1, <2>4, Zenon
  <2>5. QED
    BY <1>10, <2>3, <2>4
<1>13. QED
  BY <1>3, <1>4, <1>6, <1>11, <1>12

LEMMA HonestStep == ASSUME Typed, Honest, [Next]_vars PROVE Honest'
<1>1. GenuinePieces' = GenuinePieces
  BY TermStays DEF GenuinePieces, Genuine, IsOwn
<1>2. GenuinePieces \in SUBSET Pieces /\ Key \in GenuinePieces
  BY DEF GenuinePieces, Genuine, IsOwn, Key, Pieces
<1>3. ASSUME Answer PROVE wire' \in Seq(GenuinePieces)
  <2> DEFINE q == Head(asked)
  <2>1. Da1Answer \in Seq(GenuinePieces) /\ KgpAnswer(q) \in Seq(GenuinePieces)
    BY <1>3, AnswerIs, AnswerPieces
  <2>2. Da1Answer \o KgpAnswer(q) \in Seq(GenuinePieces)
    BY <2>1, ConcatProperties
  <2>3. KgpAnswer(q) \o Da1Answer \in Seq(GenuinePieces)
    BY <2>1, ConcatProperties
  <2>4. \/ wire' = wire \o (Da1Answer \o KgpAnswer(q))
        \/ wire' = wire \o (KgpAnswer(q) \o Da1Answer)
    BY <1>3, AnswerIs
  <2>5. QED
    BY <2>2, <2>3, <2>4, ConcatProperties DEF Honest
<1>4. QED
  BY <1>1, <1>2, <1>3, PiecesStep DEF Honest

(* Only what has not asked yet can still be about to ask. *)
LEMMA NotAskedBefore == ASSUME Typed, [Next]_vars, NotAsked' PROVE NotAsked
<1>1. CASE Prepare \/ Attempt \/ OpenTty \/ SetRaw \/ WriteRequest \/ ReadBytes \/ Interrupt
           \/ Fail \/ Kill
  BY <1>1 DEF Prepare, Attempt, OpenTty, SetRaw, WriteRequest, ReadBytes, Interrupt, Fail, Kill,
     NotAsked, Running
<1>2. CASE Answer \/ Swallow \/ Arrive \/ TypeKey \/ HangUp \/ Tick \/ UNCHANGED vars
  <2>1. UNCHANGED <<pc, probe, stage>>
    BY <1>2 DEF Answer, Swallow, Arrive, TypeKey, HangUp, Tick, vars
  <2>2. QED
    BY <2>1 DEF NotAsked
<1>3. ASSUME NEW reason, Return(reason), pc \in {"loop", "poll"} PROVE NotAsked
  BY <1>3 DEF Return, NotAsked, Running
<1>4. CASE Collect
  <2>1. CASE \E reason : Return(reason)
    BY <1>3, <1>4, <2>1 DEF Collect
  <2>2. CASE pc' = "poll" /\ UNCHANGED <<probe, stage>>
    BY <1>4, <2>2 DEF NotAsked, Collect, Running
  <2>3. QED
    BY <1>4, <2>1, <2>2, CollectCases
<1>5. QED
  BY <1>1, <1>2, <1>3, <1>4 DEF Next, Work, PollExpires, ReadEof

LEMMA FreshStep == ASSUME Typed, Fresh, [Next]_vars PROVE Fresh'
<1> SUFFICES ASSUME NotAsked'
             PROVE  /\ asked' \in Seq(OtherQueries)
                    /\ wire' \in Seq(OtherPieces)
                    /\ input' \in Seq(OtherPieces)
  BY DEF Fresh, OtherQueries, OtherPieces, IsOwn
<1>1. /\ NotAsked
      /\ asked \in Seq(OtherQueries) /\ wire \in Seq(OtherPieces) /\ input \in Seq(OtherPieces)
  BY NotAskedBefore DEF Fresh
<1>2. OtherPieces \in SUBSET Pieces /\ Key \in OtherPieces
  BY DEF OtherPieces, IsOwn, Key, Pieces
<1>3. ASSUME Answer PROVE wire' \in Seq(OtherPieces)
  <2> DEFINE q == Head(asked)
  <2>1. q \in OtherQueries
    <3>1. asked # <<>>
      BY <1>3, AnswerIs
    <3>2. QED
      BY <1>1, <3>1
  <2>2. Da1Answer \in Seq(OtherPieces) /\ KgpAnswer(q) \in Seq(OtherPieces)
    BY <1>3, <2>1, AnswerIs, AnswerPieces DEF OtherQueries
  <2>3. Da1Answer \o KgpAnswer(q) \in Seq(OtherPieces)
    BY <2>2, ConcatProperties
  <2>4. KgpAnswer(q) \o Da1Answer \in Seq(OtherPieces)
    BY <2>2, ConcatProperties
  <2>5. \/ wire' = wire \o (Da1Answer \o KgpAnswer(q))
        \/ wire' = wire \o (KgpAnswer(q) \o Da1Answer)
    BY <1>3, AnswerIs
  <2>6. QED
    BY <1>1, <2>3, <2>4, <2>5, ConcatProperties
<1>4. wire' \in Seq(OtherPieces) /\ input' \in Seq(OtherPieces)
  BY <1>1, <1>2, <1>3, PiecesStep
<1>5. asked' \in Seq(OtherQueries)
  <2>1. CASE Answer \/ Swallow
    <3>1. asked # <<>> /\ asked' = Tail(asked)
      BY <2>1 DEF Answer, Swallow
    <3>2. QED
      BY <1>1, <3>1
  <2>2. CASE WriteRequest
    <3> DEFINE q == [kind |-> IF stage = "exchange" /\ probe = "kgp" THEN "kgp" ELSE "da1",
                     id |-> Own]
    <3>1. asked' = Append(asked, q)
      BY <2>2 DEF WriteRequest
    <3>2. stage = "readiness"
      BY <2>2 DEF WriteRequest, NotAsked
    <3>3. q \in OtherQueries
      BY <3>2 DEF OtherQueries, Queries, IsOwn, Own
    <3> HIDE DEF q
    <3>4. QED
      BY <1>1, <3>1, <3>3, AppendProperties
  <2>3. CASE ~(Answer \/ Swallow \/ WriteRequest)
    <3>1. asked' = asked
      <4>1. ASSUME NEW reason, Return(reason) PROVE asked' = asked
        BY <4>1 DEF Return, terminal
      <4>2. CASE Collect
        BY <4>1, <4>2, CollectCases DEF terminal
      <4>3. CASE PollExpires \/ ReadEof
        BY <4>1, <4>3 DEF PollExpires, ReadEof
      <4>4. CASE Prepare \/ Attempt \/ OpenTty \/ SetRaw \/ ReadBytes \/ Interrupt \/ Fail \/ Kill
                 \/ Arrive \/ TypeKey \/ HangUp \/ Tick \/ UNCHANGED vars
        BY <4>4 DEF Prepare, Attempt, OpenTty, SetRaw, ReadBytes, Interrupt, Fail, Kill,
           Arrive, TypeKey, HangUp, Tick, vars, terminal
      <4>5. QED
        BY <2>3, <4>2, <4>3, <4>4 DEF Next, Work
    <3>2. QED
      BY <1>1, <3>1
  <2>4. QED
    BY <2>1, <2>2, <2>3
<1>6. QED
  BY <1>4, <1>5

(* What arrives or is read moves within response, input and wire. *)
LEMMA ArriveMoves ==
    ASSUME NEW r \in Seq(Pieces), NEW i \in Seq(Pieces), NEW w \in Seq(Pieces), w # <<>>
    PROVE  (r \o Append(i, Head(w))) \o Tail(w) = (r \o i) \o w
<1>1. /\ Head(w) \in Pieces /\ <<Head(w)>> \in Seq(Pieces) /\ Tail(w) \in Seq(Pieces)
      /\ w = <<Head(w)>> \o Tail(w)
  BY HeadTailProperties, ConcatSimplifications
<1>2. Append(i, Head(w)) = i \o <<Head(w)>>
  BY <1>1, AppendIsConcat
<1>3. r \o (i \o <<Head(w)>>) = (r \o i) \o <<Head(w)>>
  BY <1>1, ConcatAssociative
<1>4. r \o i \in Seq(Pieces)
  BY ConcatProperties
<1>5. ((r \o i) \o <<Head(w)>>) \o Tail(w) = (r \o i) \o (<<Head(w)>> \o Tail(w))
  BY SMTT(30), <1>1, <1>4, ConcatAssociative
<1>6. QED
  BY <1>1, <1>2, <1>3, <1>5

LEMMA ReadMoves ==
    ASSUME NEW S, NEW r \in Seq(S), NEW i \in Seq(S), NEW n \in 0..Len(i)
    PROVE  (r \o SubSeq(i, 1, n)) \o SubSeq(i, n + 1, Len(i)) = r \o i
<1>1. SubSeq(i, 1, n) \in Seq(S) /\ SubSeq(i, n + 1, Len(i)) \in Seq(S)
  BY LenProperties
<1>2. i = SubSeq(i, 1, n) \o SubSeq(i, n + 1, Len(i))
  <2>1. Len(i) \in Nat
    BY LenProperties
  <2>2. 1 \in 1..Len(i) + 1 /\ n \in 1 - 1..Len(i) /\ Len(i) \in n..Len(i)
    BY <2>1
  <2>3. SubSeq(i, 1, n) \o SubSeq(i, n + 1, Len(i)) = SubSeq(i, 1, Len(i))
    BY <2>2, ConcatAdjacentSubSeq
  <2>4. QED
    BY <2>3, SubSeqFull
<1>3. (r \o SubSeq(i, 1, n)) \o SubSeq(i, n + 1, Len(i))
        = r \o (SubSeq(i, 1, n) \o SubSeq(i, n + 1, Len(i)))
  <2> DEFINE u == SubSeq(i, 1, n)
             v == SubSeq(i, n + 1, Len(i))
  <2>1. u \in Seq(S) /\ v \in Seq(S)
    BY <1>1
  <2> HIDE DEF u, v
  <2>2. (r \o u) \o v = r \o (u \o v)
    BY SMTT(30), <2>1, ConcatAssociative
  <2>3. QED
    BY <2>2 DEF u, v
<1>4. QED
  BY <1>2, <1>3

LEMMA Regroup ==
    ASSUME NEW s \in Seq(Pieces), NEW t \in Seq(Pieces), NEW u \in Seq(Pieces)
    PROVE  s \o (t \o u) = (s \o t) \o u
  BY SMTT(30), ConcatAssociative

(* A terminal that answers KGP late puts its barrier first. *)
LEMMA LateAnswer ==
    ASSUME term \in Terminal, NEW q \in Queries
    PROVE  Da1Answer \o KgpAnswer(q) \in Seq(Pieces) /\ BarrierFirst(Da1Answer \o KgpAnswer(q))
<1> DEFINE a == Da1Answer \o KgpAnswer(q)
<1>1. /\ Da1Answer \in Seq(Pieces) /\ KgpAnswer(q) \in Seq(Pieces)
      /\ Da1Answer \in Seq(OtherPieces) /\ Len(Da1Answer) = 2 /\ 2 \in Answers(Da1Answer, "da1")
  <2>1. GenuinePieces \subseteq Pieces
    BY DEF GenuinePieces
  <2>2. QED
    BY <2>1, AnswerPieces, SeqMonotonic
<1>2. /\ a \in Seq(Pieces) /\ Len(a) = 2 + Len(KgpAnswer(q))
      /\ \A k \in 1..2 : a[k] = Da1Answer[k]
      /\ Len(KgpAnswer(q)) \in Nat
  <2>1. /\ a \in Seq(Pieces) /\ Len(a) = Len(Da1Answer) + Len(KgpAnswer(q))
        /\ \A k \in 1..Len(Da1Answer) + Len(KgpAnswer(q)) : a[k] =
             IF k <= Len(Da1Answer) THEN Da1Answer[k] ELSE KgpAnswer(q)[k - Len(Da1Answer)]
    BY <1>1, ConcatProperties
  <2>2. Len(KgpAnswer(q)) \in Nat
    BY <1>1, LenProperties
  <2> HIDE DEF a
  <2>3. QED
    BY <1>1, <2>1, <2>2
<1>3. 2 \in Answers(a, "da1")
  BY <1>1, AnswersGrow
<1>4. \A k \in 1..2 : ~IsOwn(a[k])
  BY <1>1, <1>2 DEF OtherPieces
<1> HIDE DEF a
<1>5. BarrierFirst(a)
  <2> SUFFICES ASSUME NEW i \in 1..Len(a), IsOwn(a[i])
               PROVE  \E j \in Answers(a, "da1") : j < i
    BY DEF BarrierFirst
  <2>1. i \notin 1..2 /\ i \in Nat /\ i >= 1
    BY <1>2, <1>4
  <2>2. 2 < i
    BY <2>1
  <2>3. QED
    BY <1>3, <2>2
<1>6. QED
  BY <1>2, <1>5 DEF a

LEMMA OrderedStep == ASSUME Typed, Fresh, Ordered, [Next]_vars PROVE Ordered'
<1>1. wire \in Seq(Pieces) /\ input \in Seq(Pieces) /\ response \in Seq(Pieces)
  BY DEF Typed, TypeOK
<1>2. response \o input \in Seq(Pieces) /\ (response \o input) \o wire \in Seq(Pieces)
  BY <1>1, ConcatProperties
<1>3. term' = term
  BY TermStays
<1> DEFINE Goal == /\ hung' => input' = <<>>
                   /\ Collecting' /\ term.late =>
                        /\ BarrierFirst(response' \o input')
                        /\ ~hung' => BarrierFirst((response' \o input') \o wire')
<1>4. Goal => Ordered'
  BY <1>3 DEF Ordered, BarrierFirst, Answers, IsOwn
<1>5. CASE Answer
  <2> DEFINE a == Da1Answer \o KgpAnswer(Head(asked))
  <2>1. /\ UNCHANGED <<input, response, hung, pc, probe, stage>>
        /\ term.late => wire' = wire \o a
    BY <1>5, AnswerIs DEF Answer
  <2>2. a \in Seq(Pieces) /\ BarrierFirst(a)
    BY <1>5, AnswerIs, LateAnswer
  <2> HIDE DEF a
  <2>3. (response \o input) \o (wire \o a) = ((response \o input) \o wire) \o a
    BY SMTT(30), <1>1, <1>2, <2>2, Regroup
  <2>4. ASSUME BarrierFirst((response \o input) \o wire)
        PROVE  BarrierFirst((response \o input) \o (wire \o a))
    BY <1>2, <2>2, <2>3, <2>4, BarrierExtend
  <2>5. QED
    BY <1>4, <2>1, <2>4 DEF Ordered, Collecting
<1>6. CASE Arrive
  <2>1. /\ ~hung /\ wire # <<>> /\ UNCHANGED <<response, hung, pc, probe, stage>>
        /\ input' = Append(input, Head(wire)) /\ wire' = Tail(wire)
    BY <1>6 DEF Arrive
  <2>2. (response' \o input') \o wire' = (response \o input) \o wire
    <3>1. (response \o Append(input, Head(wire))) \o Tail(wire) = (response \o input) \o wire
      BY <1>1, <2>1, ArriveMoves
    <3>2. QED
      BY <2>1, <3>1, Zenon
  <2>3. response' \o input' \in Seq(Pieces) /\ wire' \in Seq(Pieces)
    BY <1>1, <2>1, HeadTailProperties, AppendProperties, ConcatProperties
  <2>4. ASSUME BarrierFirst((response \o input) \o wire)
        PROVE  /\ BarrierFirst((response' \o input') \o wire')
               /\ BarrierFirst(response' \o input')
    BY <2>2, <2>3, <2>4, BarrierPrefix
  <2>5. QED
    BY <1>4, <2>1, <2>4 DEF Ordered, Collecting
<1>7. CASE TypeKey
  <2>1. /\ UNCHANGED <<input, response, hung, pc, probe, stage>>
        /\ wire' = Append(wire, Key)
    BY <1>7 DEF TypeKey
  <2>2. Key \in OtherPieces /\ Key \in Pieces
    BY DEF OtherPieces, IsOwn, Key, Pieces
  <2>3. <<Key>> \in Seq(OtherPieces) /\ <<Key>> \in Seq(Pieces)
    BY <2>2
  <2>4. wire' = wire \o <<Key>>
    BY <1>1, <2>1, <2>2, AppendIsConcat
  <2>5. (response \o input) \o (wire \o <<Key>>) = ((response \o input) \o wire) \o <<Key>>
    BY <1>1, <1>2, <2>3, Regroup
  <2>6. ASSUME BarrierFirst((response \o input) \o wire)
        PROVE  BarrierFirst((response \o input) \o wire')
    BY <1>2, <2>3, <2>4, <2>5, <2>6, BarrierExtend, BarrierTrivial
  <2>7. QED
    BY <1>4, <2>1, <2>6 DEF Ordered, Collecting
<1>8. CASE HangUp
  <2>1. hung' /\ input' = <<>> /\ UNCHANGED <<response, pc, probe, stage>>
    BY <1>8 DEF HangUp
  <2>2. response \o <<>> = response
    BY <1>1, ConcatEmptySeq
  <2>3. BarrierFirst(response \o input) => BarrierFirst(response)
    BY <1>1, BarrierPrefix
  <2>4. QED
    BY <1>4, <2>1, <2>2, <2>3 DEF Ordered, Collecting
<1>9. CASE WriteRequest
  <2>1. /\ ~hung /\ pc = "write" /\ response' = <<>>
        /\ UNCHANGED <<input, wire, hung, probe, stage>>
    BY <1>9 DEF WriteRequest
  <2>2. ASSUME Collecting'
        PROVE  /\ BarrierFirst(response' \o input')
               /\ BarrierFirst((response' \o input') \o wire')
    <3>1. wire \in Seq(OtherPieces) /\ input \in Seq(OtherPieces)
      BY <2>1, <2>2 DEF Fresh, NotAsked, Collecting, Running
    <3>2. <<>> \o input = input
      BY <1>1, ConcatEmptySeq
    <3>3. input \o wire \in Seq(OtherPieces)
      BY <3>1, ConcatProperties
    <3>4. QED
      BY <2>1, <3>1, <3>2, <3>3, BarrierTrivial
  <2>3. QED
    BY <1>4, <2>1, <2>2
<1>10. CASE ReadBytes
  <2> DEFINE n == Least(Len(input), MaxResponse - Len(response))
  <2>1. /\ pc = "poll" /\ input # <<>> /\ UNCHANGED <<wire, hung, probe, stage>>
        /\ response' = response \o SubSeq(input, 1, n)
        /\ input' = SubSeq(input, n + 1, Len(input))
    BY <1>10 DEF ReadBytes, terminal
  <2>2. n \in 0..Len(input)
    <3>1. Len(input) \in Nat /\ MaxResponse - Len(response) \in Nat
      BY ConstantTypes DEF Typed, TypeOK
    <3>2. n \in Nat /\ n <= Len(input)
      BY <3>1, LeastIs
    <3>3. QED
      BY <3>1, <3>2
  <2> HIDE DEF n
  <2>3. response' \o input' = response \o input
    BY <1>1, <2>1, <2>2, ReadMoves
  <2>4. Collecting' => Collecting
    BY <2>1 DEF Collecting
  <2>5. ~hung
    BY <2>1 DEF Ordered
  <2>6. QED
    BY <1>4, <2>1, <2>3, <2>4, <2>5 DEF Ordered
<1>11. CASE OpenTty \/ Prepare \/ Attempt \/ SetRaw \/ Fail \/ Kill
  <2>1. ~Collecting' /\ UNCHANGED hung /\ (hung => input' = <<>>)
    BY <1>11 DEF OpenTty, Prepare, Attempt, SetRaw, Fail, Kill, Collecting, Ordered, terminal
  <2>2. QED
    BY <1>4, <2>1
<1>12. ASSUME NEW reason, Return(reason) PROVE Ordered'
  <2>1. ~Collecting' /\ UNCHANGED <<hung, input>>
    BY <1>12 DEF Return, Collecting, terminal
  <2>2. QED
    BY <1>4, <2>1 DEF Ordered
<1>13. ASSUME UNCHANGED <<wire, input, response, hung, probe, stage>>,
              pc' \in {"loop", "poll"} => pc \in {"loop", "poll"}
       PROVE  Ordered'
  BY <1>4, <1>13 DEF Ordered, Collecting
<1>14. CASE Collect
  <2>1. pc = "loop"
    BY <1>14 DEF Collect
  <2>2. QED
    BY <1>12, <1>13, <1>14, <2>1, CollectCases DEF terminal
<1>15. CASE PollExpires \/ ReadEof
  BY <1>12, <1>15 DEF PollExpires, ReadEof
<1>16. CASE Swallow \/ Tick \/ Interrupt \/ UNCHANGED vars
  BY <1>13, <1>16 DEF Swallow, Tick, Interrupt, vars, terminal
<1>17. QED
  BY <1>5, <1>6, <1>7, <1>8, <1>9, <1>10, <1>11, <1>14, <1>15, <1>16 DEF Next, Work

-----------------------------------------------------------------------------
(* Receipts say what is true of the terminal.                              *)

(* A KGP receipt. *)
KgpTrue(r) ==
    /\ r.assessment.conformance = "conformant" => term.kgp = "ok" /\ term.echo /\ ~term.late
    /\ r.stop \notin Barriers => r.assessment.availability # "unavailable"

(* A Sixel receipt. *)
SixelTrue(r) ==
    /\ r.assessment.conformance = "conformant" => term.sixel
    /\ r.assessment.availability = "unavailable" => ~term.sixel
    /\ r.stop \notin Barriers => r.assessment.availability # "unavailable"

ReceiptsAreTrue ==
    /\ receipts["kgp"].stop # "none" => KgpTrue(receipts["kgp"])
    /\ receipts["sixel"].stop # "none" => SixelTrue(receipts["sixel"])

LEMMA ReceiptsStep ==
    ASSUME Typed, Waiting, Honest, Ordered, ReceiptsAreTrue, [Next]_vars
    PROVE  ReceiptsAreTrue'
<1>1. term' = term /\ term \in Terminal /\ response \in Seq(Pieces) /\ input \in Seq(Pieces)
  BY TermStays, TtyAssumption DEF Typed, TypeOK
<1>2. CASE UNCHANGED receipts
  BY <1>1, <1>2 DEF ReceiptsAreTrue, KgpTrue, SixelTrue
<1>3. ASSUME NEW reason \in StopReasons,
             stage = "exchange", pc \in {"loop", "poll"},
             receipts' = [receipts EXCEPT ![probe] = Receipt(reason)],
             reason \in Barriers <=> Answers(response, "da1") # {}
      PROVE  ReceiptsAreTrue'
  <2>1. CASE probe = "kgp"
    <3>1. /\ receipts'["sixel"] = receipts["sixel"]
          /\ receipts'["kgp"].stop = reason
          /\ receipts'["kgp"].assessment = AssessKgp(response)
      BY <1>3, <2>1, ReceiptMade
    <3>2. ASSUME AssessKgp(response).conformance = "conformant"
          PROVE  term.kgp = "ok" /\ term.echo /\ ~term.late
      <4>1. term.kgp = "ok" /\ term.echo /\ ~BarrierFirst(response)
        BY <1>1, <3>2, KgpIsTrue DEF Honest
      <4>2. term.late => BarrierFirst(response \o input)
        BY <1>3, <2>1 DEF Ordered, Collecting
      <4>3. term.late => BarrierFirst(response)
        BY <1>1, <4>2, BarrierPrefix
      <4>4. QED
        BY <4>1, <4>3
    <3>3. reason \notin Barriers => AssessKgp(response).availability # "unavailable"
      BY <1>3, UnavailableNeedsBarrier
    <3>4. KgpTrue(receipts["kgp"])'
      BY <1>1, <3>1, <3>2, <3>3 DEF KgpTrue
    <3>5. receipts'["sixel"].stop # "none" => SixelTrue(receipts["sixel"])'
      BY <1>1, <3>1 DEF ReceiptsAreTrue, SixelTrue
    <3>6. QED
      BY <3>4, <3>5 DEF ReceiptsAreTrue
  <2>2. CASE probe = "sixel"
    <3>1. /\ receipts'["kgp"] = receipts["kgp"]
          /\ receipts'["sixel"].stop = reason
          /\ receipts'["sixel"].assessment = AssessSixel(response)
      BY <1>3, <2>2, ReceiptMade
    <3>2. /\ AssessSixel(response).availability = "unavailable" => ~term.sixel
          /\ AssessSixel(response).conformance = "conformant" => term.sixel
      BY <1>1, SixelIsTrue DEF Honest
    <3>3. reason \notin Barriers => AssessSixel(response).availability # "unavailable"
      BY <1>3, UnavailableNeedsBarrier
    <3>4. SixelTrue(receipts["sixel"])'
      BY <1>1, <3>1, <3>2, <3>3 DEF SixelTrue
    <3>5. receipts'["kgp"].stop # "none" => KgpTrue(receipts["kgp"])'
      BY <1>1, <3>1 DEF ReceiptsAreTrue, KgpTrue
    <3>6. QED
      BY <3>4, <3>5 DEF ReceiptsAreTrue
  <2>3. QED
    BY <2>1, <2>2 DEF Typed, TypeOK
<1>4. CASE receipts' = [p \in {"kgp", "sixel"} |-> NoReceipt]
  BY <1>4 DEF ReceiptsAreTrue, NoReceipt
<1>5. QED
  BY <1>2, <1>3, <1>4, ReceiptStep

LEMMA AlwaysTrue == Spec => []ReceiptsAreTrue
<1> DEFINE Inv == Honest /\ Fresh /\ Ordered /\ ReceiptsAreTrue
<1>1. Init => Inv
  <2> SUFFICES ASSUME Init PROVE Inv
    OBVIOUS
  <2>1. Honest
    BY DEF Init, Honest
  <2>2. Fresh
    <3>1. [kind : {"kgp", "da1"}, id : Nat \ {Own}] \subseteq OtherQueries
      BY DEF OtherQueries, Queries, IsOwn
    <3>2. asked \in Seq(OtherQueries)
      BY <3>1, TtyAssumption, SeqMonotonic DEF Init, Terminal
    <3>3. QED
      BY <3>2 DEF Init, Fresh
  <2>3. Ordered
    BY DEF Init, Ordered, Collecting
  <2>4. ReceiptsAreTrue
    BY DEF Init, ReceiptsAreTrue, NoReceipt
  <2>5. QED
    BY <2>1, <2>2, <2>3, <2>4
<1>2. Typed /\ Waiting /\ Inv /\ [Next]_vars => Inv'
  BY HonestStep, FreshStep, OrderedStep, ReceiptsStep
<1>3. QED
  BY <1>1, <1>2, AlwaysTyped, AlwaysWaiting, PTL DEF Spec

(* Whatever the terminal is, whatever an earlier process left on its way   *)
(* and however answers are split, delayed, lost or mixed with keys, the    *)
(* renderer that negotiate_pixel selects is one the terminal has.          *)
THEOREM SelectionCorrect == Spec => []SelectedIsSupported
<1>1. ReceiptsAreTrue => SelectedIsSupported
  BY DEF ReceiptsAreTrue, KgpTrue, SixelTrue, SelectedIsSupported, Selection, Eligible
<1>2. QED
  BY <1>1, AlwaysTrue, PTL

(* No probe takes silence for a refusal, and the Sixel probe never takes   *)
(* an answer to another query for one.                                     *)
THEOREM SilenceCorrect == Spec => []SilenceStaysUnknown
<1>1. ASSUME ReceiptsAreTrue PROVE SilenceStaysUnknown
  <2>1. "none" \notin StopReasons
    BY DEF StopReasons, Barriers
  <2>2. ASSUME NEW p \in {"kgp", "sixel"}, receipts[p].stop \in StopReasons \ Barriers
        PROVE  receipts[p].assessment.availability # "unavailable"
    BY <1>1, <2>1, <2>2 DEF ReceiptsAreTrue, KgpTrue, SixelTrue
  <2>3. QED
    BY <1>1, <2>2 DEF ReceiptsAreTrue, SixelTrue, SilenceStaysUnknown
<1>2. QED
  BY <1>1, AlwaysTrue, PTL
=============================================================================
