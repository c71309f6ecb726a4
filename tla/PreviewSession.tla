--------------------------- MODULE PreviewSession ---------------------------
(***************************************************************************)
(* `term-interop preview` from the loaded artifact to its exit: viewport   *)
(* observation, renderer selection, the alternate screen under its drop    *)
(* guard, the pager or the image, the close keys and the restoration. The  *)
(* window may be resized, a write may fail and answers to the probes may   *)
(* arrive late at any time. Loading is in ArtifactRegistry, the probes are *)
(* in TtyProbe: here a probe has an outcome.                               *)
(***************************************************************************)
EXTENDS Naturals, Sequences, FiniteSets

CONSTANTS Surfaces,      \* window sizes: rows and pixel extent, 0 when not known
          Previews,      \* what may be shown, and with which --backend
          Lines,         \* wrapped lines of the text
          ExitAfter,     \* whether --exit-after-ms is given
          Keys,          \* keys the user may press
          MaxTypeahead,  \* bound on keys waiting to be read
          MaxReplies,    \* bound on late answers waiting to be read
          MaxResizes,    \* bound on resizes
          WritesMayFail  \* whether a system call on the TTY may fail

ASSUME PreviewAssumption ==
    /\ Surfaces \subseteq [rows : Nat, px : Nat]
    /\ Previews \subseteq {"text", "raster"} \X {"auto", "kgp", "sixel"}
    /\ Lines \in Nat \ {0}
    /\ {ExitAfter, WritesMayFail} \subseteq BOOLEAN
    /\ Keys \subseteq {"q", "esc", "arrow", "enter", "j", "k", "g", "G"}
    /\ {MaxTypeahead, MaxReplies, MaxResizes} \subseteq Nat

VARIABLES
    pane,       \* the TTY's surface
    outer,      \* the surface of the terminal that answers queries
    seen,       \* history: every surface either of them has had
    resizes,    \* how often they have changed, for the bound
    torn,       \* history: resized between the two answers to the geometry query
    input,      \* TTY input: keys and answers, each at least one byte
    mode, screen, image,         \* the TTY: line mode, screen buffer, KGP image
    artifact, backend,           \* what is shown and how, fixed during a behaviour
    pc,
    view,       \* the Viewport: rows, and pixel extent or 0
    extent,     \* the pixel extent answered to CSI 14 t
    eligible,   \* protocols a probe found eligible
    renderer,   \* "kgp", "sixel" or "none"
    offset,     \* first line of the page
    why,        \* why the session is closing
    refused     \* whether a write of the cleanup failed

outside == <<pane, outer, seen, resizes, torn>>
tty == <<mode, screen, image>>
plan == <<artifact, backend, view, extent, eligible, renderer>>
vars == <<outside, input, tty, plan, pc, offset, why, refused>>

Entered == {"draw", "show", "restore", "drop"}
Ended == {"done", "failed", "killed"}

TypeOK ==
    /\ {pane, outer} \cup seen \subseteq Surfaces
    /\ resizes \in 0..MaxResizes /\ torn \in BOOLEAN
    /\ input \in Seq(Keys \cup {"reply"})
    /\ mode \in {"cooked", "raw"} /\ screen \in {"main", "alternate"} /\ image \in BOOLEAN
    /\ artifact \in {"text", "raster"} /\ backend \in {"auto", "kgp", "sixel"}
    /\ pc \in {"cells", "pixels", "query", "answer", "select", "place", "flush", "raw", "enter"}
             \cup Entered \cup Ended
    /\ view \in [rows : Nat, px : Nat] /\ extent \in Nat
    /\ eligible \subseteq {"kgp", "sixel"} /\ renderer \in {"kgp", "sixel", "none"}
    /\ offset \in Nat
    /\ why \in {"none", "key", "deadline", "error"}
    /\ refused \in BOOLEAN

Init ==
    /\ pane \in Surfaces /\ outer \in Surfaces
    /\ seen = {pane, outer}
    /\ resizes = 0 /\ torn = FALSE
    /\ input = <<>>
    /\ mode = "cooked" /\ screen = "main" /\ image = FALSE
    /\ \E p \in Previews : artifact = p[1] /\ backend = p[2]
    /\ pc = "cells"
    /\ view = [rows |-> 0, px |-> 0] /\ extent = 0
    /\ eligible = {} /\ renderer = "none"
    /\ offset = 0
    /\ why = "none"
    /\ refused = FALSE

-----------------------------------------------------------------------------
(* The window, the user and late answers: outside the program.             *)

Waiting(bytes) == Cardinality({i \in DOMAIN input : input[i] \in bytes})

Resize ==
    /\ resizes < MaxResizes /\ pc \notin Ended
    /\ pane' \in Surfaces /\ outer' \in Surfaces
    /\ seen' = seen \cup {pane', outer'}
    /\ resizes' = resizes + 1
    /\ torn' = (torn \/ pc = "answer")
    /\ UNCHANGED <<input, tty, plan, pc, offset, why, refused>>

(* Keys and answers wait in the TTY; how many arrive in all is not bounded. *)
Press ==
    /\ Waiting(Keys) < MaxTypeahead /\ pc \notin Ended
    /\ \E k \in Keys : input' = Append(input, k)
    /\ UNCHANGED <<outside, tty, plan, pc, offset, why, refused>>

(* An answer to a probe or to the geometry query, after its deadline. *)
LateReply ==
    /\ Waiting({"reply"}) < MaxReplies /\ pc \notin Ended
    /\ input' = Append(input, "reply")
    /\ UNCHANGED <<outside, tty, plan, pc, offset, why, refused>>

-----------------------------------------------------------------------------
(* observe_viewport                                                        *)

(* terminal_size_of *)
ReadCells ==
    /\ pc = "cells"
    /\ view' = [rows |-> pane.rows, px |-> 0]
    /\ pc' = "pixels"
    /\ UNCHANGED <<outside, input, tty, artifact, backend, extent, eligible, renderer, offset,
                   why, refused>>

(* Fault: the extent is taken without comparing the cells. *)
ReadPixelsUnchecked ==
    /\ pc = "pixels"
    /\ view' = [view EXCEPT !.px = pane.px]
    /\ pc' = "select"
    /\ UNCHANGED <<outside, input, tty, artifact, backend, extent, eligible, renderer, offset,
                   why, refused>>

(* tcgetwinsize and validated_tty_pixels: the extent counts only if the    *)
(* second reading of the size has the same cells; a failure counts as none. *)
ReadPixels ==
    /\ pc = "pixels"
    /\ \/ /\ pane.rows = view.rows /\ pane.px # 0
          /\ view' = [view EXCEPT !.px = pane.px]
          /\ pc' = "select"
       \/ /\ pane.rows # view.rows \/ pane.px = 0 \/ WritesMayFail
          /\ pc' = "query"
          /\ UNCHANGED view
    /\ UNCHANGED <<outside, input, tty, artifact, backend, extent, eligible, renderer, offset,
                   why, refused>>

(* The CSI 14 t / CSI 18 t exchange: it discards the input that was there  *)
(* (its raw mode is in TtyProbe) and ends at the deadline, or goes on with *)
(* the pixel extent of the terminal that answers.                          *)
QueryGeometry ==
    /\ pc = "query"
    /\ input' = <<>>
    /\ \/ extent' = outer.px /\ pc' = "answer"
       \/ pc' = "select" /\ UNCHANGED extent
    /\ UNCHANGED <<outside, tty, artifact, backend, view, eligible, renderer, offset, why,
                   refused>>

(* same_coordinate_surface: the extent counts only with an answer to CSI   *)
(* 18 t that has the TTY's cells.                                          *)
AnswerCells ==
    /\ pc = "answer"
    /\ \/ outer.rows = view.rows /\ view' = [view EXCEPT !.px = extent]
       \/ UNCHANGED view
    /\ pc' = "select"
    /\ UNCHANGED <<outside, input, tty, artifact, backend, extent, eligible, renderer, offset,
                   why, refused>>

-----------------------------------------------------------------------------
(* run and select_renderer: text needs no renderer; auto probes KGP first  *)
(* and Sixel only if KGP is not eligible. A probe discards the input too.  *)
SelectRenderer ==
    /\ pc = "select"
    /\ \/ /\ artifact = "text"
          /\ pc' = "flush"
          /\ UNCHANGED <<input, eligible, renderer>>
       \/ /\ artifact = "raster"
          /\ input' = <<>>
          /\ \E found \in SUBSET (IF backend = "auto" THEN {"kgp", "sixel"} ELSE {backend}) :
               /\ eligible' = IF "kgp" \in found THEN {"kgp"} ELSE found
               /\ \/ eligible' # {} /\ renderer' \in eligible' /\ pc' = "place"
                  \/ eligible' = {} /\ pc' = "failed" /\ UNCHANGED renderer
    /\ UNCHANGED <<outside, tty, artifact, backend, view, extent, offset, why, refused>>

(* show_raster: fit_raster keeps two rows free and fails when no other is  *)
(* left (RasterFit has its computation); the image is encoded.             *)
Place ==
    /\ pc = "place"
    /\ pc' = IF view.rows > 2 THEN "flush" ELSE "failed"
    /\ UNCHANGED <<outside, input, tty, plan, offset, why, refused>>

-----------------------------------------------------------------------------
(* ScreenGuard                                                             *)

(* enter: tcgetattr and tcflush *)
Flush ==
    /\ pc = "flush"
    /\ input' = <<>>
    /\ pc' = "raw"
    /\ UNCHANGED <<outside, tty, plan, offset, why, refused>>

(* enter: tcsetattr, then the raw guard, for which the descriptor is       *)
(* duplicated; a failure there leaves raw mode on.                         *)
SetRaw ==
    /\ pc = "raw"
    /\ mode' = "raw"
    /\ pc' \in {"enter"} \cup (IF WritesMayFail THEN {"failed"} ELSE {})
    /\ UNCHANGED <<outside, input, screen, image, plan, offset, why, refused>>

(* enter: the alternate screen. A failed write may have got that far; only *)
(* the raw guard exists to undo anything.                                  *)
EnterScreen ==
    /\ pc = "enter"
    /\ \/ screen' = "alternate" /\ pc' = "draw" /\ UNCHANGED mode
       \/ /\ WritesMayFail
          /\ screen' \in {"main", "alternate"}
          /\ mode' = "cooked"
          /\ pc' = "failed"
    /\ UNCHANGED <<outside, input, image, plan, offset, why, refused>>

(* render_text_page, or the placement, the image and the status line. *)
Draw ==
    /\ pc = "draw"
    /\ \/ image' = (image \/ renderer = "kgp") /\ pc' = "show" /\ UNCHANGED why
       \/ /\ WritesMayFail
          /\ image' \in {image, image \/ renderer = "kgp"}
          /\ pc' = "drop" /\ why' = "error"
    /\ UNCHANGED <<outside, input, mode, screen, plan, offset, refused>>

(* Lines on a page: all rows but the label and the status line. *)
PageRows == IF view.rows > 3 THEN view.rows - 2 ELSE 1

(* saturating_sub *)
Minus(a, b) == IF a > b THEN a - b ELSE 0

(* The keys of show_text. *)
Turn(key) ==
    CASE key = "j" -> IF offset + PageRows < Lines THEN offset + PageRows ELSE Lines - 1
      [] key = "k" -> Minus(offset, PageRows)
      [] key = "g" -> 0
      [] key = "G" -> Minus(Lines, PageRows)
      [] OTHER -> offset

(* Fault: only the letter closes. *)
ClosesOnLetter(key) == key = "q"

(* The close keys, by first byte: arrows and answers begin with ESC too. *)
Closes(key) == key \in {"q", "esc", "arrow", "reply"}

(* read_key: one read empties the input, and its first byte decides. *)
ReadKey ==
    /\ pc = "show" /\ input # <<>>
    /\ input' = <<>>
    /\ \/ /\ Closes(Head(input))
          /\ pc' = "restore" /\ why' = "key"
          /\ UNCHANGED offset
       \/ /\ ~Closes(Head(input))
          /\ artifact = "text"
          /\ offset' = Turn(Head(input))
          /\ pc' = "draw" /\ UNCHANGED why
       \/ /\ ~Closes(Head(input))
          /\ artifact = "raster"
          /\ UNCHANGED <<offset, pc, why>>
    /\ UNCHANGED <<outside, tty, plan, refused>>

(* read_key returns no key: the deadline of --exit-after-ms, or end of     *)
(* input on a TTY that is gone.                                            *)
Deadline ==
    /\ pc = "show" /\ (ExitAfter \/ WritesMayFail)
    /\ pc' = "restore" /\ why' = "deadline"
    /\ UNCHANGED <<outside, input, tty, plan, offset, refused>>

(* poll or read fails. *)
ReadFails ==
    /\ pc = "show" /\ WritesMayFail
    /\ pc' = "drop" /\ why' = "error"
    /\ UNCHANGED <<outside, input, tty, plan, offset, refused>>

(* Fault: a restoration that failed is not tried again by the guard. *)
RestoreOnce ==
    /\ pc = "restore"
    /\ \/ screen' = "main" /\ image' = FALSE /\ mode' = "cooked" /\ pc' = "done"
          /\ UNCHANGED refused
       \/ /\ WritesMayFail
          /\ mode' = "cooked" /\ pc' = "failed"
          /\ UNCHANGED <<screen, image, refused>>
    /\ UNCHANGED <<outside, input, plan, offset, why>>

(* restore: delete the image, then leave the screen; a failure is reported *)
(* and the guard is dropped with its work undone.                          *)
Restore ==
    /\ pc = "restore"
    /\ \/ screen' = "main" /\ image' = FALSE /\ mode' = "cooked" /\ pc' = "done"
       \/ /\ WritesMayFail
          /\ image' \in {image, FALSE}
          /\ pc' = "drop"
          /\ UNCHANGED <<screen, mode>>
    /\ UNCHANGED <<outside, input, plan, offset, why, refused>>

(* Drop: restore once more, ignoring failure, then the raw guard. *)
Drop ==
    /\ pc = "drop"
    /\ \/ screen' = "main" /\ image' = FALSE /\ UNCHANGED refused
       \/ /\ WritesMayFail
          /\ image' \in {image, FALSE}
          /\ refused' = TRUE
          /\ UNCHANGED screen
    /\ mode' = "cooked"
    /\ pc' = "failed"
    /\ UNCHANGED <<outside, input, plan, offset, why>>

(* An error before the guard exists. *)
Fail ==
    /\ pc \in {"cells", "query", "select", "place", "flush", "raw"} /\ WritesMayFail
    /\ pc' = "failed"
    /\ UNCHANGED <<outside, input, tty, plan, offset, why, refused>>

(* A signal without a handler. *)
Kill ==
    /\ pc \notin Ended
    /\ pc' = "killed"
    /\ UNCHANGED <<outside, input, tty, plan, offset, why, refused>>

Work ==
    \/ ReadCells \/ ReadPixels \/ QueryGeometry \/ AnswerCells \/ SelectRenderer \/ Place
    \/ Flush \/ SetRaw \/ EnterScreen \/ Draw \/ ReadKey \/ Restore \/ Drop

Next == Work \/ Deadline \/ ReadFails \/ Fail \/ Kill \/ Resize \/ Press \/ LateReply

Spec == Init /\ [][Next]_vars

(* The scheduler runs the program. Nothing is assumed of the user. *)
FairSpec == Spec /\ WF_vars(Work)

-----------------------------------------------------------------------------
(* Properties.                                                             *)

(* A pixel extent is used only together with the cells of the surface it   *)
(* was measured on, whatever is resized meanwhile and whichever terminal   *)
(* answers, unless that terminal is resized between its two answers.       *)
PixelsBelongToCells == view.px # 0 /\ ~torn => view \in seen

(* The image is drawn by a protocol that a probe found eligible, and with  *)
(* --backend kgp or sixel by no other.                                     *)
RendererWasEligible ==
    renderer # "none" => renderer \in eligible /\ backend \in {"auto", renderer}

(* Once the guard exists, every exit but a kill restores the caller: main  *)
(* screen, its line mode and no image left, unless the TTY refused the     *)
(* cleanup itself.                                                         *)
GuardRestores ==
    pc \in {"done", "failed"} /\ why # "none" /\ ~refused =>
        mode = "cooked" /\ screen = "main" /\ ~image

(* "A drop guard performs the same cleanup best-effort during unwinding or  *)
(* early error": an error before the guard exists leaves nothing behind,   *)
(* inside enter too.                                                       *)
EarlyErrorRestores ==
    pc = "failed" /\ why = "none" => mode = "cooked" /\ screen = "main" /\ ~image

(* "`q` and `Esc` close": one that is the first of what waits for the next *)
(* read closes, typed while a page is drawn too. What is read behind it    *)
(* is dropped, and so is a close key that was typed behind another key.    *)
QuitCloses ==
    (pc \in {"draw", "show"} /\ input # <<>> /\ Head(input) \in {"q", "esc"}) ~> (pc \in Ended)
=============================================================================
