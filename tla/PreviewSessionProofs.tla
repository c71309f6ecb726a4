------------------------ MODULE PreviewSessionProofs ------------------------
(***************************************************************************)
(* Proofs about PreviewSession for any surfaces, any number of lines and   *)
(* any keys, resizes and failures.                                         *)
(***************************************************************************)
EXTENDS PreviewSession, TLAPS

(* A surface has natural dimensions. *)
LEMMA SurfaceTyped ==
    ASSUME NEW s \in Surfaces PROVE s \in [rows : Nat, px : Nat] /\ s.rows \in Nat /\ s.px \in Nat
BY PreviewAssumption

(* Turning the page gives a line number, or one past the text. *)
LEMMA TurnType == ASSUME offset \in Nat, view.rows \in Nat, NEW key PROVE Turn(key) \in Nat
<1>1. PageRows \in Nat /\ Lines \in Nat \ {0}
  BY PreviewAssumption DEF PageRows
<1>2. Minus(offset, PageRows) \in Nat /\ Minus(Lines, PageRows) \in Nat
  BY <1>1 DEF Minus
<1>3. QED
  BY <1>1, <1>2 DEF Turn

(* Every step keeps the types. *)
LEMMA PreviewTypeStep == ASSUME TypeOK, [Next]_vars PROVE TypeOK'
<1> USE DEF TypeOK, Entered, Ended, outside, tty, plan
<1>1. CASE ReadCells
  <2>1. view' \in [rows : Nat, px : Nat]
    BY <1>1, SurfaceTyped DEF ReadCells
  <2>2. QED
    BY <1>1, <2>1 DEF ReadCells
<1>2. CASE ReadPixels
  <2>1. view' \in [rows : Nat, px : Nat]
    BY <1>2, SurfaceTyped DEF ReadPixels
  <2>2. QED
    BY <1>2, <2>1 DEF ReadPixels
<1>3. CASE QueryGeometry
  <2>1. extent' \in Nat
    BY <1>3, SurfaceTyped DEF QueryGeometry
  <2>2. QED
    BY <1>3, <2>1 DEF QueryGeometry
<1>4. CASE SelectRenderer
  <2>1. eligible' \subseteq {"kgp", "sixel"}
    <3>1. backend \in {"auto", "kgp", "sixel"}
      OBVIOUS
    <3>2. (IF backend = "auto" THEN {"kgp", "sixel"} ELSE {backend}) \subseteq {"kgp", "sixel"}
      BY <3>1
    <3>3. CASE artifact = "text"
      BY <1>4, <3>3 DEF SelectRenderer
    <3>4. CASE artifact # "text"
      <4>1. PICK found \in SUBSET (IF backend = "auto" THEN {"kgp", "sixel"} ELSE {backend}) :
              eligible' = IF "kgp" \in found THEN {"kgp"} ELSE found
        BY <1>4, <3>4 DEF SelectRenderer
      <4>2. QED
        BY <3>2, <4>1
    <3>5. QED
      BY <3>3, <3>4
  <2>2. renderer' \in {"kgp", "sixel", "none"}
    BY <1>4, <2>1 DEF SelectRenderer
  <2>3. pc' \in {"place", "flush", "failed"}
    BY <1>4 DEF SelectRenderer
  <2>4. input' \in Seq(Keys \cup {"reply"})
    <3>1. <<>> \in Seq(Keys \cup {"reply"})
      OBVIOUS
    <3>2. input' = input \/ input' = <<>>
      BY <1>4 DEF SelectRenderer
    <3>3. QED
      BY <3>1, <3>2
  <2>5. QED
    BY <1>4, <2>1, <2>2, <2>3, <2>4 DEF SelectRenderer
<1>5. CASE Flush
  BY <1>5 DEF Flush
<1>6. CASE SetRaw
  BY <1>6 DEF SetRaw
<1>7. CASE EnterScreen
  BY <1>7 DEF EnterScreen
<1>8. CASE Draw
  <2>1. image' \in BOOLEAN
    BY <1>8, Zenon DEF Draw
  <2>2. pc' \in {"show", "drop"} /\ why' \in {"none", "key", "deadline", "error"}
    BY <1>8 DEF Draw
  <2>3. QED
    BY <1>8, <2>1, <2>2 DEF Draw
<1>9. CASE ReadKey
  <2>1. offset' \in Nat
    BY <1>9, TurnType DEF ReadKey
  <2>2. pc' \in {"restore", "draw", "show"} /\ why' \in {"none", "key", "deadline", "error"}
    BY <1>9 DEF ReadKey
  <2>3. QED
    BY <1>9, <2>1, <2>2 DEF ReadKey
<1>10. CASE Restore
  <2>1. image' \in BOOLEAN
    BY <1>10, Zenon DEF Restore
  <2>2. pc' \in {"done", "drop"} /\ mode' \in {"cooked", "raw"} /\ screen' \in {"main", "alternate"}
    BY <1>10 DEF Restore
  <2>3. QED
    BY <1>10, <2>1, <2>2 DEF Restore
<1>11. CASE Drop
  BY ZenonT(40), <1>11 DEF Drop
<1>12. CASE Deadline
  BY <1>12 DEF Deadline
<1>13. CASE ReadFails
  BY <1>13 DEF ReadFails
<1>14. CASE Fail
  BY <1>14 DEF Fail
<1>15. CASE Kill
  BY <1>15 DEF Kill
<1>16. CASE Resize
  BY <1>16, PreviewAssumption DEF Resize
<1>17. CASE Press
  BY <1>17, PreviewAssumption DEF Press
<1>18. CASE LateReply
  BY <1>18, PreviewAssumption DEF LateReply
<1>19. CASE AnswerCells
  BY <1>19 DEF AnswerCells
<1>20. CASE Place
  BY <1>20 DEF Place
<1>21. CASE UNCHANGED vars
  BY <1>21 DEF vars
<1>22. QED
  BY <1>1, <1>2, <1>3, <1>4, <1>5, <1>6, <1>7, <1>8, <1>9, <1>10, <1>11, <1>12, <1>13, <1>14,
     <1>15, <1>16, <1>17, <1>18, <1>19, <1>20, <1>21 DEF Next, Work

(* Every reachable state is well typed. *)
THEOREM PreviewTypeCorrect == Spec => []TypeOK
<1>1. Init => TypeOK
  <2> SUFFICES ASSUME Init PROVE TypeOK
    OBVIOUS
  <2>1. /\ view \in [rows : Nat, px : Nat]
        /\ input \in Seq(Keys \cup {"reply"})
        /\ {pane, outer} \cup seen \subseteq Surfaces
    BY DEF Init
  <2>2. /\ resizes \in 0..MaxResizes
        /\ artifact \in {"text", "raster"} /\ backend \in {"auto", "kgp", "sixel"}
    BY PreviewAssumption DEF Init
  <2>3. QED
    BY <2>1, <2>2 DEF Init, TypeOK
<1>2. QED
  BY <1>1, PreviewTypeStep, PTL DEF Spec

-----------------------------------------------------------------------------
(* The steps before the guard exists. *)
Early == {"cells", "pixels", "query", "answer", "select", "place", "flush", "raw", "enter"}

(* A viewport with an extent has the rows of a surface that was there, and *)
(* the extent of one, also when they are not the same (a resize between    *)
(* the two answers, see PixelsBelongToCells).                              *)
EachWasMeasured ==
    view.px # 0 =>
        /\ \E s \in seen : s.rows = view.rows
        /\ \E s \in seen : s.px = view.px

(* What is known of the viewport and the renderer before and after each is *)
(* chosen, that a reason to close exists only after the guard does, and    *)
(* what the steps before it have changed.                                  *)
SessionInv ==
    /\ pane \in seen /\ outer \in seen
    /\ pc \in {"cells", "pixels", "query", "answer"} => view.px = 0
    /\ pc \in {"pixels", "query", "answer"} => \E s \in seen : s.rows = view.rows
    /\ pc = "answer" => \E s \in seen : s.px = extent
    /\ pc = "answer" /\ ~torn => extent = outer.px
    /\ PixelsBelongToCells
    /\ EachWasMeasured
    /\ pc \in {"cells", "pixels", "query", "answer", "select"} => renderer = "none"
    /\ RendererWasEligible
    /\ why # "none" => pc \in {"restore", "drop"} \cup Ended
    /\ pc \in {"restore", "drop"} => why # "none"
    /\ GuardRestores
    /\ pc \in Early => why = "none" /\ ~image /\ screen = "main"

(* A view whose rows and extent are those of a surface is that surface. *)
LEMMA ViewIsSurface ==
    ASSUME NEW s \in Surfaces, NEW v \in [rows : Nat, px : Nat], v.rows = s.rows
    PROVE  [v EXCEPT !.px = s.px] = s
BY SurfaceTyped

(* Every step keeps it. *)
LEMMA SessionStep == ASSUME TypeOK, SessionInv, [Next]_vars PROVE SessionInv'
<1> USE DEF SessionInv, PixelsBelongToCells, RendererWasEligible, GuardRestores, Early,
            EachWasMeasured, Ended, outside, tty, plan
<1>1. CASE ReadCells
  BY <1>1 DEF ReadCells
<1>2. CASE ReadPixels
  <2>1. pane \in Surfaces /\ view \in [rows : Nat, px : Nat]
    BY DEF TypeOK
  <2>2. view'.px # 0 => view' \in seen
    BY <1>2, <2>1, ViewIsSurface DEF ReadPixels
  <2>3. pc' = "query" => view'.px = 0
    BY <1>2 DEF ReadPixels
  <2>4. QED
    BY <1>2, <2>2, <2>3 DEF ReadPixels
<1>3. CASE QueryGeometry
  BY <1>3 DEF QueryGeometry
<1>4. CASE SelectRenderer
  <2>1. renderer' # "none" => renderer' \in eligible' /\ backend \in {"auto", renderer'}
    <3>1. CASE artifact = "text"
      BY <1>4, <3>1 DEF SelectRenderer
    <3>2. CASE artifact # "text"
      <4>1. PICK found \in SUBSET (IF backend = "auto" THEN {"kgp", "sixel"} ELSE {backend}) :
              /\ eligible' = IF "kgp" \in found THEN {"kgp"} ELSE found
              /\ \/ eligible' # {} /\ renderer' \in eligible' /\ pc' = "place"
                 \/ eligible' = {} /\ pc' = "failed" /\ UNCHANGED renderer
        BY <1>4, <3>2 DEF SelectRenderer
      <4>2. renderer = "none"
        BY <1>4 DEF SelectRenderer
      <4>3. eligible' \subseteq found
        BY <4>1
      <4>4. QED
        BY <4>1, <4>2, <4>3
    <3>3. QED
      BY <3>1, <3>2
  <2>2. why = "none" /\ pc' \in {"place", "flush", "failed"}
    BY <1>4 DEF SelectRenderer
  <2>3. QED
    BY <1>4, <2>1, <2>2 DEF SelectRenderer
<1>5. CASE Flush
  BY <1>5 DEF Flush
<1>6. CASE SetRaw
  BY <1>6 DEF SetRaw
<1>7. CASE EnterScreen
  BY <1>7 DEF EnterScreen
<1>8. CASE Draw
  BY <1>8 DEF Draw
<1>9. CASE ReadKey
  BY <1>9 DEF ReadKey
<1>10. CASE Restore
  <2>1. pc' \in {"done", "drop"} /\ UNCHANGED <<why, renderer, view, seen, pane, outer>>
    BY <1>10 DEF Restore
  <2>2. pc' = "done" => mode' = "cooked" /\ screen' = "main" /\ image' = FALSE
    BY <1>10 DEF Restore
  <2>3. QED
    BY <1>10, <2>1, <2>2 DEF Restore
<1>11. CASE Drop
  BY <1>11 DEF Drop
<1>12. CASE Deadline
  BY <1>12 DEF Deadline
<1>13. CASE ReadFails
  BY <1>13 DEF ReadFails
<1>14. CASE Fail
  BY <1>14 DEF Fail
<1>15. CASE Kill
  BY <1>15 DEF Kill
<1>16. CASE Resize
  BY <1>16 DEF Resize
<1>17. CASE Press
  BY <1>17 DEF Press
<1>18. CASE LateReply
  BY <1>18 DEF LateReply
<1>19. CASE AnswerCells
  <2>1. outer \in Surfaces /\ view \in [rows : Nat, px : Nat]
    BY DEF TypeOK
  <2>2. view'.px # 0 /\ ~torn => view' \in seen
    BY <1>19, <2>1, ViewIsSurface DEF AnswerCells
  <2>3. view' = view \/ view' = [view EXCEPT !.px = extent]
    BY <1>19 DEF AnswerCells
  <2>4. view'.px # 0 => view'.rows = view.rows /\ view'.px = extent
    BY <1>19, <2>1, <2>3 DEF AnswerCells
  <2>5. EachWasMeasured'
    BY <1>19, <2>4 DEF AnswerCells
  <2>6. QED
    BY <1>19, <2>2, <2>5 DEF AnswerCells
<1>20. CASE Place
  BY <1>20 DEF Place
<1>21. CASE UNCHANGED vars
  BY <1>21 DEF vars
<1>22. QED
  BY <1>1, <1>2, <1>3, <1>4, <1>5, <1>6, <1>7, <1>8, <1>9, <1>10, <1>11, <1>12, <1>13, <1>14,
     <1>15, <1>16, <1>17, <1>18, <1>19, <1>20, <1>21 DEF Next, Work

(* The viewport's pixel extent belongs to its cells, the renderer was      *)
(* shown to be eligible and, once it exists, the guard restores the        *)
(* caller.                                                                 *)
THEOREM SessionCorrect ==
    Spec => [](PixelsBelongToCells /\ EachWasMeasured /\ RendererWasEligible /\ GuardRestores)
<1>1. Init => SessionInv
  <2> SUFFICES ASSUME Init PROVE SessionInv
    OBVIOUS
  <2>1. view.px = 0
    BY DEF Init
  <2>2. QED
    BY <2>1 DEF Init, SessionInv, PixelsBelongToCells, RendererWasEligible, GuardRestores,
       EachWasMeasured, Early
<1>2. TypeOK /\ SessionInv /\ [Next]_vars => SessionInv'
  BY SessionStep
<1>3. SessionInv =>
        PixelsBelongToCells /\ EachWasMeasured /\ RendererWasEligible /\ GuardRestores
  BY DEF SessionInv
<1>4. QED
  BY <1>1, <1>2, <1>3, PreviewTypeCorrect, PTL DEF Spec

(* The rows and the extent an image is fitted to were measured on one      *)
(* surface, unless the terminal that answers was resized between its two   *)
(* answers (observe_viewport): then each was measured on some surface.     *)
THEOREM ExtentCorrect == Spec => [](PixelsBelongToCells /\ EachWasMeasured)
  BY SessionCorrect, PTL
=============================================================================
