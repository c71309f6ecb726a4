-------------------------- MODULE OutputFileProofs --------------------------
(* Proofs about OutputFile, for any number of writers and other programs.  *)
EXTENDS OutputFile, TLAPS

(* What a writer has done by the time it reaches a step. *)
WriterStage ==
    \A w \in Writers :
        /\ pc[w] \in {"check", "create"} => ~temp[w]
        /\ pc[w] \in {"sync", "persist"} => content[w] = "whole"
        /\ pc[w] = "persist" => synced[w]

(* OutputIsWhole and NoTemporaryLeft need the stages; the name goes only   *)
(* to a writer at its last step, from a name that was free.                *)
IInv == TypeOK /\ WriterStage /\ OutputIsWhole /\ SuccessIsExclusive /\ NoTemporaryLeft

LEMMA InitIInv == Init => IInv
  BY OutputAssumption
  DEF Init, IInv, TypeOK, WriterStage, OutputIsWhole, SuccessIsExclusive, NoTemporaryLeft,
      Names, Ended

(* A step of one writer, or of none, keeps the invariant. *)
LEMMA StepIInv == IInv /\ [Next]_vars => IInv'
<1> SUFFICES ASSUME IInv, [Next]_vars PROVE IInv'
  OBVIOUS
<1> USE OutputAssumption
    DEF IInv, TypeOK, WriterStage, OutputIsWhole, SuccessIsExclusive, NoTemporaryLeft,
        Names, Ended, Goto, GiveUp
<1>1. ASSUME NEW w \in Writers, Check(w) PROVE IInv'
  BY <1>1 DEF Check
<1>2. ASSUME NEW w \in Writers, Create(w) PROVE IInv'
  BY ZenonT(40), <1>2 DEF Create
<1>3. ASSUME NEW w \in Writers, Write(w) PROVE IInv'
  BY ZenonT(40), <1>3 DEF Write
<1>4. ASSUME NEW w \in Writers, Sync(w) PROVE IInv'
  BY ZenonT(40), <1>4 DEF Sync
<1>5. ASSUME NEW w \in Writers, Persist(w) PROVE IInv'
  BY <1>5 DEF Persist
<1>6. ASSUME NEW w \in Writers, Kill(w) PROVE IInv'
  BY <1>6 DEF Kill
<1>7. CASE OtherCreates
  BY <1>7 DEF OtherCreates
<1>8. CASE OtherRemoves
  BY <1>8 DEF OtherRemoves
<1>9. CASE PowerFails
  BY <1>9 DEF PowerFails
<1>10. CASE UNCHANGED vars
  BY <1>10 DEF vars
<1> QED
  BY <1>1, <1>2, <1>3, <1>4, <1>5, <1>6, <1>7, <1>8, <1>9, <1>10 DEF Next

(* A document under the output's name is whole and on the disk, at most    *)
(* one writer is told it succeeded, and none that ends by itself leaves a  *)
(* temporary file (write_output).                                          *)
THEOREM OutputCorrect ==
    Spec => [](OutputIsWhole /\ SuccessIsExclusive /\ NoTemporaryLeft)
<1>1. IInv => OutputIsWhole /\ SuccessIsExclusive /\ NoTemporaryLeft
  BY DEF IInv
<1> QED
  BY <1>1, InitIInv, StepIInv, PTL DEF Spec

(* No step gives a name that exists to another file (persist_noclobber).   *)
THEOREM NeverReplaces == Spec => NothingIsReplaced
<1>1. ASSUME IInv, [Next]_vars
      PROVE  [at' # at => "nothing" \in {at, at'} \/ <<at, at'>> = <<"dangling", "other">>]_vars
  BY <1>1 DEF Next, vars, Check, Create, Write, Sync, Persist, Kill, OtherCreates, OtherRemoves,
             PowerFails, GiveUp
<1> QED
  BY <1>1, InitIInv, StepIInv, PTL DEF Spec, NothingIsReplaced

(* At most one of any number of writers is told that it has the name.      *)
THEOREM SuccessCorrect == Spec => []SuccessIsExclusive
  BY OutputCorrect, PTL
=============================================================================
