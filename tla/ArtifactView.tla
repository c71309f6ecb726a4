---------------------------- MODULE ArtifactView ----------------------------
(***************************************************************************)
(* What a preview puts on the screen: the bytes of a file turned into safe *)
(* text, wrapped and paged, or an image placed in the free cells. A byte   *)
(* and a character are tokens, one for each case the code tells apart; the *)
(* session around the pages is PreviewSession.                             *)
(***************************************************************************)
EXTENDS RasterFit, Sequences, SequencesExt, FiniteSetsExt

CONSTANTS Files,      \* contents: sequences of Bytes
          Images,     \* decoded images: [width, height]
          Names,      \* file names: sequences of Bytes
          TextViews,  \* viewports for a text: [columns, rows, width, height]
          ImageViews, \* viewports for an image; an extent not observed is 0
          MaxText     \* DEFAULT_MAX_TEXT_BYTES

(* c2 begins a two-byte character; 9b and a9 continue one. *)
Bytes == {"a", "nl", "cr", "tab", "esc", "nul", "c2", "9b", "a9"}

Reserved == 2         \* rows show_raster keeps free

ASSUME ViewAssumption ==
    /\ Files \subseteq Seq(Bytes) /\ Names \subseteq Seq(Bytes)
    /\ Images \subseteq [width : Nat \ {0}, height : Nat \ {0}]
    /\ TextViews \cup ImageViews \subseteq [columns : Nat, rows : Nat, width : Nat, height : Nat]
    /\ MaxText \in Nat

VARIABLES
    file,     \* the content read
    image,    \* the image it decodes to; width 0 when it is none
    name,     \* the file's name
    view,     \* the viewport observed
    pc,       \* "load", "layout", "page", "image", "drawn", "failed"
    text,     \* sanitized text
    lines,    \* wrapped lines
    offset,   \* lines before the page
    jumped,   \* history: "G" has been pressed
    visible,  \* history: lines that a reader has seen
    label,    \* the name as it is drawn
    left,     \* first column of an image that is drawn
    place     \* its placement

vars == <<file, image, name, view, pc, text, lines, offset, jumped, visible, label, left, place>>

-----------------------------------------------------------------------------
(* sanitize_text *)

Bounded(input, max) == SubSeq(input, 1, Lesser(Len(input), max))

(* String::from_utf8_lossy: a byte that is part of no character becomes    *)
(* U+FFFD ("?"). U+009B is the control character c2 9b encodes, U+00A9 the *)
(* printable one c2 a9 does.                                               *)
FromUtf8Lossy(b) ==
    LET Continues(i) == i <= Len(b) /\ b[i] \in {"9b", "a9"}
        Starts(i) == i >= 1 /\ b[i] = "c2"
        Character(i) ==
            CASE Starts(i) -> IF Continues(i + 1) THEN <<"U+" \o b[i + 1]>> ELSE <<"?">>
              [] Continues(i) -> IF Starts(i - 1) THEN <<>> ELSE <<"?">>
              [] OTHER -> <<b[i]>>
    IN  FlattenSeq([i \in 1 .. Len(b) |-> Character(i)])

(* char::is_control: C0 and C1. *)
Controls == {"nl", "cr", "tab", "esc", "nul", "U+9b"}

(* Fault: only ASCII controls are replaced. *)
ReplacedAscii(c) == IF c = "esc" THEN "esc-symbol" ELSE c

Replaced(c) ==
    CASE c \in {"nl", "cr", "tab"} -> c
      [] c = "esc" -> "esc-symbol"
      [] c \in Controls \ {"nl", "cr", "tab", "esc"} -> "?"
      [] OTHER -> c

(* The words of the notice are one character here. *)
Notice == <<"nl", "truncated", "nl">>

SanitizeText(input, max) ==
    LET shown == FromUtf8Lossy(Bounded(input, max))
    IN  [i \in 1 .. Len(shown) |-> Replaced(shown[i])]
            \o IF Len(input) > max THEN Notice ELSE <<>>

IsBinary(input, max) == "nul" \in Range(Bounded(input, max))

-----------------------------------------------------------------------------
(* wrapped_text_lines and safe_label *)

(* The elements of a finite set of numbers in increasing order. *)
Ascending(S) ==
    [k \in 1 .. Cardinality(S) |-> CHOOSE x \in S : Cardinality({y \in S : y <= x}) = k]

(* str::lines: a line ends at a newline or at the end of the text, an empty *)
(* rest is no line, and a carriage return before the newline goes with it.  *)
TextLines(t) ==
    LET n == Len(t)
        ends == {i \in 1 .. n : t[i] = "nl" \/ i = n}
        first(e) == 1 + Max({0} \cup {d \in ends : d < e})
        last(e) == IF t[e] # "nl" THEN e
                   ELSE IF e > first(e) /\ t[e - 1] = "cr" THEN e - 2 ELSE e - 1
        order == Ascending(ends)
    IN  [k \in 1 .. Len(order) |-> SubSeq(t, first(order[k]), last(order[k]))]

Chunks(s, width) ==
    [k \in 1 .. CeilDiv(Len(s), width) |->
        SubSeq(s, (k - 1) * width + 1, Lesser(k * width, Len(s)))]

(* Fault: an empty line has no chunk and gets no row. *)
WrappedDroppingBlanks(t, columns) ==
    LET ls == TextLines(t)
        wrapped == FlattenSeq([k \in 1 .. Len(ls) |-> Chunks(ls[k], AtLeastOne(columns))])
    IN  IF wrapped = <<>> THEN <<<<>>>> ELSE wrapped

WrappedTextLines(t, columns) ==
    LET ls == TextLines(t)
        wrapped == FlattenSeq([k \in 1 .. Len(ls) |->
                       IF ls[k] = <<>> THEN <<<<>>>> ELSE Chunks(ls[k], AtLeastOne(columns))])
    IN  IF wrapped = <<>> THEN <<<<>>>> ELSE wrapped

SafeLabel(n, columns) ==
    LET source == FromUtf8Lossy(n)
        safe == [i \in 1 .. Len(source) |-> IF source[i] \in Controls THEN "?" ELSE source[i]]
    IN  SubSeq(safe, 1, Lesser(columns, Len(safe)))

Saturating(m, n) == IF m > n THEN m - n ELSE 0

-----------------------------------------------------------------------------
(* Pages: a label in row 1, content from row 2, then the footer over the   *)
(* viewport's last row.                                                    *)

ContentRows(v) == AtLeastOne(Saturating(v.rows, 2))

(* Fault: the step forgets the label. *)
PageRowsLong(v) == AtLeastOne(Saturating(v.rows, 1))

(* The page step; render_text_page computes its own ContentRows. *)
PageRows(v) == AtLeastOne(Saturating(v.rows, 2))

Drawn(ls, o, v) == (o + 1) .. Lesser(o + ContentRows(v), Len(ls))

(* The footer hides what was drawn in its row, and a one-row screen scrolls. *)
Seen(ls, o, v) == {l \in Drawn(ls, o, v) : l - o + 1 < v.rows}

Page(ls, o) ==
    /\ offset' = o
    /\ visible' = visible \cup Seen(ls, o, view)

NoImage == [width |-> 0, height |-> 0]

(* The bytes of a file that decodes as an image are not looked at again. *)
Init ==
    /\ \/ file \in Files /\ image = NoImage /\ view \in TextViews
       \/ file = <<>> /\ image \in Images /\ view \in ImageViews
    /\ name \in Names
    /\ pc = "load"
    /\ text = <<>> /\ lines = <<>> /\ offset = 0
    /\ jumped = FALSE /\ visible = {}
    /\ label = <<>> /\ left = 0 /\ place = NoImage

(* load_artifact once the bytes are read: an image if it decodes. *)
Prepare ==
    /\ pc = "load"
    /\ \/ image # NoImage /\ pc' = "image" /\ UNCHANGED text
       \/ /\ image = NoImage /\ ~IsBinary(file, MaxText)
          /\ text' = SanitizeText(file, MaxText)
          /\ pc' = "layout"
       \/ image = NoImage /\ IsBinary(file, MaxText) /\ pc' = "failed" /\ UNCHANGED text
    /\ UNCHANGED <<file, image, name, view, lines, offset, jumped, visible, label, left, place>>

(* show_text up to the first page. *)
Layout ==
    /\ pc = "layout"
    /\ lines' = WrappedTextLines(text, view.columns)
    /\ Page(lines', 0)
    /\ label' = SafeLabel(name, Saturating(view.columns, 2))
    /\ pc' = "page"
    /\ UNCHANGED <<file, image, name, view, text, jumped, left, place>>

(* A key and the page it leads to. *)
Turn ==
    /\ pc = "page"
    /\ \/ /\ Page(lines, Lesser(offset + PageRows(view), Saturating(Len(lines), 1)))
          /\ UNCHANGED jumped
       \/ /\ \E o \in {Saturating(offset, PageRows(view)), 0} : Page(lines, o)
          /\ UNCHANGED jumped
       \/ /\ Page(lines, Saturating(Len(lines), PageRows(view)))
          /\ jumped' = TRUE
    /\ UNCHANGED <<file, image, name, view, pc, text, lines, label, left, place>>

(* show_raster: the placement is centred between the columns. *)
Place ==
    /\ pc = "image"
    /\ \/ /\ Drawable(image, view, Reserved)
          /\ place' = Fit(image, view, Reserved)
          /\ left' = Saturating(view.columns, place'.columns) \div 2 + 1
          /\ label' = SafeLabel(name, Saturating(view.columns, 20))
          /\ pc' = "drawn"
       \/ /\ ~Drawable(image, view, Reserved)
          /\ pc' = "failed"
          /\ UNCHANGED <<label, left, place>>
    /\ UNCHANGED <<file, image, name, view, text, lines, offset, jumped, visible>>

Next == Prepare \/ Layout \/ Turn \/ Place

Spec == Init /\ [][Next]_vars

-----------------------------------------------------------------------------
(* Every page begins at a line of the text, whatever keys led to it, and   *)
(* what is drawn has the types of show_text and show_raster.               *)
TypeOK ==
    /\ pc \in {"load", "layout", "page", "image", "drawn", "failed"}
    /\ pc = "page" => offset < Len(lines)
    /\ visible \subseteq 1 .. Len(lines)
    /\ jumped \in BOOLEAN

(* Of the control characters of a file only a tab and a carriage return    *)
(* inside a line reach the terminal (sanitize_text keeps these two), and of *)
(* a name none does (safe_label), whether written as one byte, as a UTF-8  *)
(* pair or as a stray byte. preview-profile-v1.md, which says that control *)
(* bytes are replaced, has no such exception.                              *)
OnlyTabAndReturnPass ==
    /\ \A l \in Range(lines) : Range(l) \cap (Controls \ {"tab", "cr"}) = {}
    /\ Range(label) \cap Controls = {}

(* A row is not wider than the screen, and the rows one after another are  *)
(* the file's characters in order, each itself or its replacement, without *)
(* the line ends; a blank line of the file is a blank row. A file over the *)
(* limit says so at its end.                                               *)
RowsAreTheFile ==
    pc = "page" =>
        LET characters == FromUtf8Lossy(Bounded(file, MaxText))
                              \o (IF Len(file) > MaxText THEN Notice ELSE <<>>)
            n == Len(characters)
            Is(i, c) == i <= n /\ characters[i] = c
            EndsLine(i) == Is(i, "nl") \/ (Is(i, "cr") /\ Is(i + 1, "nl"))
            kept == Ascending({i \in 1 .. n : ~EndsLine(i)})
            blank(i) == EndsLine(i) /\ (i > 1 => Is(i - 1, "nl"))
        IN  /\ \A k \in DOMAIN lines : Len(lines[k]) <= AtLeastOne(view.columns)
            /\ LET rows == FlattenSeq(lines)
               IN  /\ Len(rows) = Len(kept)
                   /\ \A k \in 1 .. Len(kept) :
                          rows[k] = characters[kept[k]]
                          \/ (characters[kept[k]] \in Controls /\ rows[k] \in {"?", "esc-symbol"})
            /\ n > 0 => Cardinality({k \in DOMAIN lines : lines[k] = <<>>})
                            = Cardinality({i \in 1 .. n : blank(i)})

(* Reading on page by page shows every line: unless a reader has jumped to *)
(* the end, no line before the page's last is unseen, although a page's    *)
(* height and the step to the next one are computed apart and the footer   *)
(* is written over the content. A screen under three rows has no room.     *)
PagingSkipsNothing ==
    (pc = "page" /\ view.rows >= 3 /\ ~jumped) =>
        1 .. Lesser(offset + ContentRows(view), Len(lines)) \subseteq visible

(* An image that is shown lies inside the free cells and pixels, above the *)
(* footer, is not enlarged, keeps its aspect ratio up to one pixel and     *)
(* its cells hold its pixels, down to one-pixel images and viewports of a  *)
(* single pixel (fit_raster, show_raster).                                 *)
ImageFits ==
    pc = "drawn" =>
        /\ FitsInside(image, view, Reserved)
        /\ IsLargest(image, view, Reserved)
        /\ KeepsAspect(image, view, Reserved)
        /\ CellsHoldPixels(image, view, Reserved)
        /\ left >= 1 /\ left + place.columns - 1 <= view.columns
        /\ place.rows < view.rows
=============================================================================
