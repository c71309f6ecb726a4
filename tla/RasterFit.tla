----------------------------- MODULE RasterFit ------------------------------
(***************************************************************************)
(* fit_raster: the placement of an image in a viewport, in cells for the   *)
(* Kitty protocol and in pixels for Sixel. Dimensions are u32 and cells    *)
(* u16, computed in u64: no product here leaves 64 bits, so the saturating *)
(* operations are the plain ones, and the narrowing at the end is exact    *)
(* because a placement is never larger than its image or its viewport.     *)
(***************************************************************************)
EXTENDS Integers

CellWidth == 8     \* a cell's pixels where the terminal reports none
CellHeight == 16

AtLeastOne(n) == IF n < 1 THEN 1 ELSE n
Lesser(m, n) == IF m < n THEN m ELSE n
Clamp(n, high) == AtLeastOne(Lesser(n, high))
CeilDiv(n, d) == (n + d - 1) \div d

(* Fault: the footer's rows count as drawable. *)
AvailableRowsAll(v, reserved) == v.rows

AvailableRows(v, reserved) == IF v.rows > reserved THEN v.rows - reserved ELSE 0

(* 0 stands for an extent that was not observed: the code filters it too. *)
AvailableWidth(v) == IF v.width > 0 THEN v.width ELSE v.columns * CellWidth
FullHeight(v) == IF v.height > 0 THEN v.height ELSE v.rows * CellHeight
AvailableHeight(v, reserved) ==
    AtLeastOne((FullHeight(v) * AvailableRows(v, reserved)) \div v.rows)

Drawable(image, v, reserved) ==
    v.columns > 0 /\ AvailableRows(v, reserved) > 0 /\ image.width > 0 /\ image.height > 0

(* The axis that limits the image is scaled first and the other follows. *)
Pixels(image, v, reserved) ==
    LET aw == AvailableWidth(v)
        ah == AvailableHeight(v, reserved)
        wide == image.width * ah > image.height * aw
        w == Lesser(image.width, aw)
        h == Lesser(image.height, ah)
    IN  IF wide
        THEN [width |-> w, height |-> AtLeastOne((image.height * w) \div image.width)]
        ELSE [width |-> AtLeastOne((image.width * h) \div image.height), height |-> h]

(* The placement of a drawable image; otherwise fit_raster is EmptyViewport. *)
Fit(image, v, reserved) ==
    LET p == Pixels(image, v, reserved)
    IN  [width   |-> p.width,
         height  |-> p.height,
         columns |-> Clamp(CeilDiv(p.width * v.columns, AvailableWidth(v)), v.columns),
         rows    |-> Clamp(CeilDiv(p.height * v.rows, FullHeight(v)),
                           AvailableRows(v, reserved))]

-----------------------------------------------------------------------------
(* What a placement has to be. *)

(* Nothing is drawn outside the cells and pixels that are free. *)
FitsInside(image, v, reserved) ==
    LET p == Fit(image, v, reserved)
    IN  /\ p.columns \in 1 .. v.columns /\ p.rows \in 1 .. (v.rows - reserved)
        /\ p.width \in 1 .. AvailableWidth(v)
        /\ p.height \in 1 .. AvailableHeight(v, reserved)

(* An image is never enlarged, and is as large as one of the axes allows. *)
IsLargest(image, v, reserved) ==
    LET p == Fit(image, v, reserved)
    IN  /\ p.width <= image.width /\ p.height <= image.height
        /\ \/ p.width = Lesser(image.width, AvailableWidth(v))
           \/ p.height = Lesser(image.height, AvailableHeight(v, reserved))

(* The ratio is the image's, up to one pixel on one axis. *)
KeepsAspect(image, v, reserved) ==
    LET p == Fit(image, v, reserved)
        within(n, d) == n > -d /\ n < d
        skew == p.width * image.height - p.height * image.width
    IN  within(skew, image.width) \/ within(skew, image.height)

(* The cells hold the pixels, where a cell is at least a pixel high. *)
CellsHoldPixels(image, v, reserved) ==
    LET p == Fit(image, v, reserved)
    IN  /\ p.width * v.columns <= p.columns * AvailableWidth(v)
        /\ FullHeight(v) >= v.rows =>
               p.height * v.rows <= p.rows * FullHeight(v)
=============================================================================
