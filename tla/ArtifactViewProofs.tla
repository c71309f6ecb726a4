------------------------- MODULE ArtifactViewProofs -------------------------
(***************************************************************************)
(* Proofs about what reaches the screen: ArtifactView and RasterFit for    *)
(* every file, name, image, viewport and limit, and the frame of           *)
(* WireExchange that carries an image and the queries through tmux.        *)
(***************************************************************************)
EXTENDS ArtifactView, WireExchange, TLAPS, FiniteSetTheorems, SequenceTheorems, WellFoundedInduction

-----------------------------------------------------------------------------
(* Arithmetic: products and rounding.                                      *)

LEMMA ProductType ==
    ASSUME NEW m \in Nat, NEW n \in Nat
    PROVE  m * n \in Nat /\ (m >= 1 /\ n >= 1 => m * n >= 1)
  OBVIOUS

LEMMA ProductGrows ==
    ASSUME NEW k \in Nat, NEW m \in Nat, NEW n \in Nat, m <= n
    PROVE  k * m <= k * n /\ m * k <= n * k
  OBVIOUS

(* A quotient is rounded down. *)
LEMMA Quotient ==
    ASSUME NEW n \in Nat, NEW d \in Nat \ {0}
    PROVE  /\ n \div d \in Nat
           /\ (n \div d) * d <= n /\ n < (n \div d) * d + d
  OBVIOUS

(* A product that is not larger has a factor that is not larger. *)
LEMMA FactorBound ==
    ASSUME NEW q \in Nat, NEW d \in Nat \ {0}, NEW m \in Nat, q * d <= m * d
    PROVE  q <= m
<1>1. CASE q >= m + 1
  <2>1. q * d >= (m + 1) * d /\ (m + 1) * d = m * d + d
    BY <1>1, ProductGrows
  <2>2. QED
    BY <2>1, ProductType
<1>2. QED
  BY <1>1

(* A quotient is bounded by what bounds the dividend. *)
LEMMA QuotientBound ==
    ASSUME NEW n \in Nat, NEW d \in Nat \ {0}, NEW m \in Nat, n <= m * d
    PROVE  n \div d <= m
<1>1. (n \div d) \in Nat /\ (n \div d) * d <= m * d
  BY Quotient, ProductType
<1>2. QED
  BY <1>1, FactorBound

LEMMA CeilDivIs ==
    ASSUME NEW n \in Nat, NEW d \in Nat \ {0}
    PROVE  /\ CeilDiv(n, d) \in Nat
           /\ n <= CeilDiv(n, d) * d /\ CeilDiv(n, d) * d < n + d
           /\ n >= 1 => CeilDiv(n, d) >= 1
<1> DEFINE m == n + d - 1
           q == m \div d
<1>1. m \in Nat /\ CeilDiv(n, d) = q
  BY DEF CeilDiv
<1>2. q \in Nat /\ q * d <= m /\ m < q * d + d
  BY <1>1, Quotient
<1>3. q * d \in Nat
  BY <1>2, ProductType
<1> HIDE DEF q
<1>4. q = 0 => q * d = 0
  OBVIOUS
<1>5. QED
  BY <1>1, <1>2, <1>3, <1>4

(* A scaled axis lies between the exact quotient, rounded, and one pixel. *)
LEMMA ScaledIs ==
    ASSUME NEW n \in Nat \ {0}, NEW d \in Nat \ {0}
    PROVE  LET q == AtLeastOne(n \div d) IN
           /\ q \in Nat /\ q >= 1
           /\ n < q * d + d
           /\ q * d < n + d
           /\ \A m \in Nat \ {0} : n <= m * d => q <= m
<1> DEFINE r == n \div d
           q == AtLeastOne(r)
<1>1. r \in Nat /\ r * d <= n /\ n < r * d + d
  BY Quotient
<1>2. q \in Nat /\ q >= 1 /\ (r = 0 => q = 1) /\ (r # 0 => q = r)
  BY <1>1 DEF AtLeastOne
<1>3. ASSUME NEW m \in Nat \ {0}, n <= m * d PROVE q <= m
  <2>1. r <= m
    BY <1>3, QuotientBound
  <2>2. QED
    BY <1>2, <2>1
<1>4. n < q * d + d /\ q * d < n + d
  <2>1. CASE r = 0
    <3>1. q * d = d /\ r * d = 0
      BY <1>2, <2>1
    <3>2. QED
      BY <1>1, <3>1
  <2>2. CASE r # 0
    <3>1. q * d = r * d /\ r * d \in Nat
      BY <1>1, <1>2, <2>2, ProductType
    <3> HIDE DEF q, r
    <3>2. QED
      BY <1>1, <3>1
  <2>3. QED
    BY <2>1, <2>2
<1>5. QED
  BY <1>2, <1>3, <1>4

-----------------------------------------------------------------------------
(* fit_raster.                                                             *)

(* Dimensions of a decoded image and of a viewport. *)
Size == [width : Nat \ {0}, height : Nat \ {0}]
Viewport == [columns : Nat, rows : Nat, width : Nat, height : Nat]

LEMMA Extents ==
    ASSUME NEW im \in Size, NEW v \in Viewport, NEW reserved \in Nat,
           Drawable(im, v, reserved)
    PROVE  /\ v.columns \in Nat \ {0} /\ v.rows \in Nat \ {0}
           /\ AvailableRows(v, reserved) \in Nat \ {0}
           /\ AvailableRows(v, reserved) = v.rows - reserved
           /\ AvailableWidth(v) \in Nat \ {0} /\ FullHeight(v) \in Nat \ {0}
           /\ AvailableHeight(v, reserved) \in Nat \ {0}
<1>1. /\ v.columns \in Nat \ {0} /\ v.rows \in Nat \ {0}
      /\ AvailableRows(v, reserved) \in Nat \ {0}
      /\ AvailableRows(v, reserved) = v.rows - reserved
  BY DEF Drawable, AvailableRows, Viewport
<1>2. AvailableWidth(v) \in Nat \ {0} /\ FullHeight(v) \in Nat \ {0}
  BY <1>1 DEF AvailableWidth, FullHeight, Viewport, CellWidth, CellHeight
<1>3. FullHeight(v) * AvailableRows(v, reserved) \in Nat
  BY <1>1, <1>2, ProductType
<1>4. (FullHeight(v) * AvailableRows(v, reserved)) \div v.rows \in Nat
  BY <1>1, <1>3, Quotient
<1>5. QED
  BY <1>1, <1>2, <1>4 DEF AvailableHeight, AtLeastOne

LEMMA LesserIs ==
    ASSUME NEW m \in Nat, NEW n \in Nat
    PROVE  /\ Lesser(m, n) \in Nat /\ Lesser(m, n) <= m /\ Lesser(m, n) <= n
           /\ Lesser(m, n) = m \/ Lesser(m, n) = n
  BY DEF Lesser

(* The pixels of a placement, on both branches. *)
LEMMA PixelsFit ==
    ASSUME NEW im \in Size, NEW v \in Viewport, NEW reserved \in Nat,
           Drawable(im, v, reserved)
    PROVE  LET p == Pixels(im, v, reserved)
               aw == AvailableWidth(v)
               ah == AvailableHeight(v, reserved)
           IN  /\ p.width \in Nat \ {0} /\ p.height \in Nat \ {0}
               /\ p.width <= aw /\ p.height <= ah
               /\ p.width <= im.width /\ p.height <= im.height
               /\ p.width = Lesser(im.width, aw) \/ p.height = Lesser(im.height, ah)
               /\ LET skew == p.width * im.height - p.height * im.width
                  IN  \/ skew > -im.width /\ skew < im.width
                      \/ skew > -im.height /\ skew < im.height
<1> DEFINE p == Pixels(im, v, reserved)
           aw == AvailableWidth(v)
           ah == AvailableHeight(v, reserved)
           iw == im.width
           ih == im.height
<1>1. aw \in Nat \ {0} /\ ah \in Nat \ {0} /\ iw \in Nat \ {0} /\ ih \in Nat \ {0}
  BY Extents DEF Size
<1> DEFINE w == Lesser(iw, aw)
           h == Lesser(ih, ah)
<1>2. /\ w \in Nat \ {0} /\ w <= iw /\ w <= aw
      /\ h \in Nat \ {0} /\ h <= ih /\ h <= ah
  BY <1>1 DEF Lesser
<1>3. CASE iw * ah > ih * aw
  <2> DEFINE q == AtLeastOne((ih * w) \div iw)
  <2>1. p = [width |-> w, height |-> q]
    BY <1>3 DEF Pixels
  <2> HIDE DEF w, h, aw, ah, iw, ih, p
  <2>2. ih * w \in Nat \ {0} /\ ih * w <= ih * iw /\ ih * w <= ih * aw /\ ih * aw \in Nat
    BY <1>1, <1>2, ProductType, ProductGrows
  <2>3. iw * ah = ah * iw /\ ih * w = w * ih
    BY <1>1, <1>2
  <2>4. ih * w <= ah * iw
    BY <1>1, <1>3, <2>2, <2>3, ProductType
  <2>5. /\ q \in Nat /\ q >= 1 /\ q <= ah /\ q <= ih
        /\ ih * w < q * iw + iw /\ q * iw < ih * w + iw
    BY <1>1, <2>2, <2>4, ScaledIs
  <2>6. w * ih - q * iw > -iw /\ w * ih - q * iw < iw
    <3>1. q * iw \in Nat /\ w * ih \in Nat
      BY <1>1, <1>2, <2>5, ProductType
    <3> HIDE DEF q
    <3>2. QED
      BY <1>1, <2>3, <2>5, <3>1
  <2> HIDE DEF q
  <2>7. p.width = w /\ p.height = q
    BY <2>1
  <2>8. QED
    BY <1>2, <2>5, <2>6, <2>7 DEF p, w, h, aw, ah, iw, ih
<1>4. CASE ~(iw * ah > ih * aw)
  <2> DEFINE q == AtLeastOne((iw * h) \div ih)
  <2>1. p = [width |-> q, height |-> h]
    BY <1>4 DEF Pixels
  <2> HIDE DEF w, h, aw, ah, iw, ih, p
  <2>2. iw * h \in Nat \ {0} /\ iw * h <= iw * ih /\ iw * h <= iw * ah /\ iw * ah \in Nat
    BY <1>1, <1>2, ProductType, ProductGrows
  <2>3. ih * aw = aw * ih /\ iw * h = h * iw
    BY <1>1, <1>2
  <2>4. iw * h <= aw * ih
    BY <1>1, <1>4, <2>2, <2>3, ProductType
  <2>5. /\ q \in Nat /\ q >= 1 /\ q <= aw /\ q <= iw
        /\ iw * h < q * ih + ih /\ q * ih < iw * h + ih
    BY <1>1, <2>2, <2>4, ScaledIs
  <2>6. q * ih - h * iw > -ih /\ q * ih - h * iw < ih
    <3>1. q * ih \in Nat /\ h * iw \in Nat
      BY <1>1, <1>2, <2>5, ProductType
    <3> HIDE DEF q
    <3>2. QED
      BY <1>1, <2>3, <2>5, <3>1
  <2> HIDE DEF q
  <2>7. p.width = q /\ p.height = h
    BY <2>1
  <2>8. QED
    BY <1>2, <2>5, <2>6, <2>7 DEF p, w, h, aw, ah, iw, ih
<1>5. QED
  BY <1>3, <1>4

(* Cells that hold an extent: enough of them, and no more than there are. *)
LEMMA CellsHold ==
    ASSUME NEW extent \in Nat \ {0}, NEW cells \in Nat \ {0}, NEW free \in Nat \ {0},
           NEW full \in Nat \ {0}, extent * cells <= free * full
    PROVE  LET c == Clamp(CeilDiv(extent * cells, full), free)
           IN  c \in 1 .. free /\ extent * cells <= c * full
<1> DEFINE n == extent * cells
           q == CeilDiv(n, full)
<1>1. n \in Nat \ {0}
  BY ProductType
<1>2. q \in Nat /\ q >= 1 /\ n <= q * full
  BY <1>1, CeilDivIs
<1>3. Clamp(q, free) = Lesser(q, free)
  BY <1>2 DEF Clamp, AtLeastOne, Lesser
<1> HIDE DEF n, q
<1>4. Lesser(q, free) \in 1 .. free /\ (Lesser(q, free) = q \/ Lesser(q, free) = free)
  BY <1>2 DEF Lesser
<1>5. n <= free * full
  BY DEF n
<1>6. n <= Lesser(q, free) * full
  BY <1>2, <1>4, <1>5
<1>7. QED
  BY <1>3, <1>4, <1>6 DEF n, q

LEMMA ClampType ==
    ASSUME NEW m \in Nat, NEW high \in Nat \ {0}
    PROVE  Clamp(m, high) \in 1 .. high
  BY DEF Clamp, AtLeastOne, Lesser

LEMMA FitIs ==
    ASSUME NEW im \in Size, NEW v \in Viewport, NEW reserved \in Nat,
           Drawable(im, v, reserved)
    PROVE  /\ FitsInside(im, v, reserved)
           /\ IsLargest(im, v, reserved)
           /\ KeepsAspect(im, v, reserved)
           /\ CellsHoldPixels(im, v, reserved)
<1> DEFINE px == Pixels(im, v, reserved)
           p == Fit(im, v, reserved)
           aw == AvailableWidth(v)
           ah == AvailableHeight(v, reserved)
           fh == FullHeight(v)
           free == AvailableRows(v, reserved)
           cols == v.columns
           rows == v.rows
<1>1. /\ p.width = px.width /\ p.height = px.height
      /\ p.columns = Clamp(CeilDiv(px.width * cols, aw), cols)
      /\ p.rows = Clamp(CeilDiv(px.height * rows, fh), free)
  BY DEF Fit
<1>2. /\ cols \in Nat \ {0} /\ rows \in Nat \ {0} /\ free \in Nat \ {0} /\ free = rows - reserved
      /\ aw \in Nat \ {0} /\ fh \in Nat \ {0} /\ ah \in Nat \ {0}
  BY Extents
<1>3. /\ px.width \in Nat \ {0} /\ px.height \in Nat \ {0} /\ px.width <= aw /\ px.height <= ah
      /\ px.width <= im.width /\ px.height <= im.height
      /\ px.width = Lesser(im.width, aw) \/ px.height = Lesser(im.height, ah)
      /\ LET skew == px.width * im.height - px.height * im.width
         IN  \/ skew > -im.width /\ skew < im.width
             \/ skew > -im.height /\ skew < im.height
  BY PixelsFit
<1>4. p.columns \in 1 .. cols /\ p.width * cols <= p.columns * aw
  <2>1. px.width * cols <= cols * aw
    BY <1>2, <1>3, ProductGrows
  <2> DEFINE w == px.width
             c == Clamp(CeilDiv(w * cols, aw), cols)
  <2>2. w \in Nat \ {0} /\ w * cols <= cols * aw /\ p.width = w /\ p.columns = c
    BY <1>1, <1>3, <2>1
  <2> HIDE DEF w, p, aw, cols
  <2>3. c \in 1 .. cols /\ w * cols <= c * aw
    BY <1>2, <2>2, CellsHold
  <2> HIDE DEF c
  <2>4. QED
    BY <2>2, <2>3
<1>5. p.rows \in 1 .. free
  <2>1. px.height * rows \in Nat
    BY <1>2, <1>3, ProductType
  <2>2. CeilDiv(px.height * rows, fh) \in Nat
    BY <1>2, <2>1, CeilDivIs
  <2>3. QED
    BY <1>1, <1>2, <2>2, ClampType
<1>6. ASSUME fh >= rows PROVE p.height * rows <= p.rows * fh
  <2> DEFINE q == (fh * free) \div rows
  <2>1. ah = AtLeastOne(q)
    BY DEF AvailableHeight
  <2> HIDE DEF px, p, aw, ah, fh, free, cols, rows
  <2>2. fh * free \in Nat /\ rows <= fh * free /\ fh * free = free * fh
    <3>1. fh * 1 <= fh * free /\ fh * 1 = fh
      BY <1>2, ProductGrows
    <3>2. QED
      BY <1>2, <1>6, <3>1, ProductType
  <2>3. q \in Nat /\ q * rows <= fh * free /\ fh * free < q * rows + rows
    BY <1>2, <2>2, Quotient
  <2>4. q >= 1
    <3>1. q = 0 => q * rows = 0
      BY <1>2
    <3> HIDE DEF q
    <3>2. QED
      BY <1>2, <2>2, <2>3, <3>1
  <2> HIDE DEF q
  <2>5. px.height <= q
    BY <1>2, <1>3, <2>1, <2>3, <2>4 DEF AtLeastOne
  <2>6. px.height * rows <= q * rows /\ px.height * rows \in Nat /\ q * rows \in Nat
    BY <1>2, <1>3, <2>3, <2>5, ProductGrows, ProductType
  <2>7. px.height * rows <= free * fh
    BY <2>2, <2>3, <2>6
  <2>8. QED
    BY <1>1, <1>2, <1>3, <2>7, CellsHold
<1>7. FitsInside(im, v, reserved)
  BY <1>1, <1>2, <1>3, <1>4, <1>5 DEF FitsInside
<1>8. IsLargest(im, v, reserved)
  BY <1>1, <1>3 DEF IsLargest
<1>9. KeepsAspect(im, v, reserved)
  BY <1>1, <1>3 DEF KeepsAspect
<1>10. CellsHoldPixels(im, v, reserved)
  BY <1>4, <1>6 DEF CellsHoldPixels
<1>11. QED
  BY <1>7, <1>8, <1>9, <1>10

-----------------------------------------------------------------------------
(* show_raster.                                                            *)

(* What a behaviour is about stays what it was at the beginning, and an    *)
(* image is placed only if it can be drawn.                                *)
ImageInv ==
    /\ view \in Viewport
    /\ image # NoImage => image \in Size
    /\ pc \in {"image", "drawn"} => image # NoImage
    /\ pc = "drawn" =>
           /\ Drawable(image, view, Reserved)
           /\ place = Fit(image, view, Reserved)
           /\ left = Saturating(view.columns, place.columns) \div 2 + 1

(* Every image that show_raster draws lies inside the free cells and       *)
(* pixels, is not enlarged, keeps its ratio and is held by its cells, for  *)
(* every image and every viewport: fit_raster's roundings never add up.    *)
THEOREM ImageCorrect == Spec => []ImageFits
<1>1. Init => ImageInv
  <2> SUFFICES ASSUME Init PROVE ImageInv
    OBVIOUS
  <2>1. view \in Viewport
    BY ViewAssumption DEF Init, Viewport
  <2>2. image # NoImage => image \in Size
    BY ViewAssumption DEF Init, Size
  <2>3. QED
    BY <2>1, <2>2 DEF Init, ImageInv
<1>2. ImageInv /\ [Next]_vars => ImageInv'
  <2> SUFFICES ASSUME ImageInv, [Next]_vars PROVE ImageInv'
    OBVIOUS
  <2>1. CASE Prepare
    BY <2>1 DEF Prepare, ImageInv, NoImage
  <2>2. CASE Layout
    BY <2>2 DEF Layout, ImageInv, NoImage, Page
  <2>3. CASE Turn
    BY <2>3 DEF Turn, ImageInv, NoImage, Page
  <2>4. CASE Place
    <3>1. view' = view /\ image' = image
      BY <2>4 DEF Place
    <3>2. CASE Drawable(image, view, Reserved)
      BY <2>4, <3>1, <3>2 DEF Place, ImageInv, NoImage
    <3>3. CASE ~Drawable(image, view, Reserved)
      BY <2>4, <3>1, <3>3 DEF Place, ImageInv, NoImage
    <3>4. QED
      BY <3>2, <3>3
  <2>5. CASE UNCHANGED vars
    BY <2>5 DEF vars, ImageInv, NoImage
  <2>6. QED
    BY <2>1, <2>2, <2>3, <2>4, <2>5 DEF Next
<1>3. ImageInv => ImageFits
  <2> SUFFICES ASSUME ImageInv, pc = "drawn"
               PROVE  /\ FitsInside(image, view, Reserved)
                      /\ IsLargest(image, view, Reserved)
                      /\ KeepsAspect(image, view, Reserved)
                      /\ CellsHoldPixels(image, view, Reserved)
                      /\ left >= 1 /\ left + place.columns - 1 <= view.columns
                      /\ place.rows < view.rows
    BY DEF ImageFits
  <2>1. image \in Size /\ view \in Viewport /\ Reserved \in Nat /\ Drawable(image, view, Reserved)
    BY DEF ImageInv, Reserved
  <2>2. /\ FitsInside(image, view, Reserved) /\ IsLargest(image, view, Reserved)
        /\ KeepsAspect(image, view, Reserved) /\ CellsHoldPixels(image, view, Reserved)
    BY <2>1, FitIs
  <2>3. /\ place.columns \in 1 .. view.columns /\ place.rows \in 1 .. (view.rows - Reserved)
        /\ view.columns \in Nat /\ view.rows \in Nat
    BY <2>1, <2>2 DEF ImageInv, FitsInside, Viewport
  <2>4. place.rows < view.rows
    BY <2>3 DEF Reserved
  <2>5. left >= 1 /\ left + place.columns - 1 <= view.columns
    <3> DEFINE gap == Saturating(view.columns, place.columns)
    <3>1. gap \in Nat /\ gap + place.columns <= view.columns
      BY <2>3 DEF Saturating
    <3>2. left = gap \div 2 + 1
      BY DEF ImageInv
    <3> HIDE DEF gap
    <3>3. QED
      BY <2>3, <3>1, <3>2
  <2>6. QED
    BY <2>2, <2>4, <2>5
<1>4. QED
  BY <1>1, <1>2, <1>3, PTL DEF Spec

-----------------------------------------------------------------------------
(* Induction over the naturals, as a fact about sets of them.              *)

LEMMA LeastNatural ==
    ASSUME NEW S \in SUBSET Nat, S # {}
    PROVE  \E x \in S : \A y \in S : x <= y
<1>1. PICK x \in S : \A y \in S : ~(<<y, x>> \in OpToRel(<, Nat))
  BY NatLessThanWellFounded, WFMin
<1>2. ASSUME NEW y \in S, y < x PROVE FALSE
  <2>1. <<y, x>> \in Nat \X Nat
    OBVIOUS
  <2>2. <<y, x>> \in OpToRel(<, Nat)
    BY <1>2, <2>1 DEF OpToRel
  <2>3. QED
    BY <1>1, <2>2
<1>3. QED
  BY <1>2

LEMMA Induction ==
    ASSUME NEW S, 0 \in S, \A n \in Nat : n \in S => n + 1 \in S
    PROVE  \A n \in Nat : n \in S
<1> SUFFICES ASSUME Nat \ S # {} PROVE FALSE
  OBVIOUS
<1>1. PICK x \in Nat \ S : \A y \in Nat \ S : x <= y
  BY LeastNatural
<1>2. x # 0 /\ x - 1 \in Nat /\ (x - 1) + 1 = x
  BY <1>1
<1>3. x - 1 \in S
  BY <1>1, <1>2
<1>4. QED
  BY <1>1, <1>2, <1>3

-----------------------------------------------------------------------------
(* FlattenSeq.                                                             *)

(* The concatenation of the first i sequences, as FlattenSeq defines it. *)
IsFlatten(f, s, m) ==
    f = [i \in 1 .. m |-> IF i = 1 THEN s[i] ELSE f[i - 1] \o s[i]]

LEMMA FlattenExists == ASSUME NEW s PROVE \A m \in Nat : \E f : IsFlatten(f, s, m)
<1> DEFINE S == {m \in Nat : \E f : IsFlatten(f, s, m)}
<1>1. 0 \in S
  <2>1. IsFlatten([i \in 1 .. 0 |-> 0], s, 0)
    BY DEF IsFlatten
  <2>2. QED
    BY <2>1
<1>2. ASSUME NEW m \in Nat, m \in S PROVE m + 1 \in S
  <2>1. PICK f : IsFlatten(f, s, m)
    BY <1>2
  <2> DEFINE step(i, h) == IF i = 1 THEN s[i] ELSE h[i - 1] \o s[i]
             g == [i \in 1 .. m + 1 |-> IF i <= m THEN f[i] ELSE step(i, f)]
  <2>2. f = [i \in 1 .. m |-> step(i, f)]
    BY <2>1 DEF IsFlatten
  <2>3. \A i \in 1 .. m : f[i] = step(i, f)
    BY <2>2
  <2>4. \A i \in 1 .. m + 1 : i # 1 => i - 1 \in 1 .. m /\ g[i - 1] = f[i - 1]
    OBVIOUS
  <2>5. \A i \in 1 .. m + 1 : step(i, g) = step(i, f)
    BY <2>4
  <2>6. \A i \in 1 .. m + 1 : g[i] = step(i, f)
    BY <2>3
  <2> HIDE DEF g
  <2>7. g = [i \in 1 .. m + 1 |-> g[i]]
    BY DEF g
  <2>8. g = [i \in 1 .. m + 1 |-> step(i, g)]
    BY <2>5, <2>6, <2>7
  <2>9. IsFlatten(g, s, m + 1)
    BY <2>8 DEF IsFlatten
  <2>10. QED
    BY <2>9
<1> HIDE DEF S
<1>3. \A m \in Nat : m \in S
  BY <1>1, <1>2, Induction
<1>4. QED
  BY <1>3 DEF S

LEMMA FlattenIs ==
    ASSUME NEW A, NEW s \in Seq(Seq(A))
    PROVE  /\ s = <<>> => FlattenSeq(s) = <<>>
           /\ s # <<>> => \E f : IsFlatten(f, s, Len(s)) /\ FlattenSeq(s) = f[Len(s)]
<1>1. Len(s) \in Nat /\ (Len(s) = 0 <=> s = <<>>)
  BY EmptySeq, LenProperties
<1>2. CASE s = <<>>
  BY <1>1, <1>2 DEF FlattenSeq
<1>3. CASE s # <<>>
  <2> DEFINE f == CHOOSE f : IsFlatten(f, s, Len(s))
  <2>1. IsFlatten(f, s, Len(s))
    BY <1>1, FlattenExists
  <2>2. FlattenSeq(s) = f[Len(s)]
    BY <1>1, <1>3 DEF FlattenSeq, IsFlatten
  <2>3. QED
    BY <1>3, <2>1, <2>2
<1>4. QED
  BY <1>2, <1>3

LEMMA FlattenEmpty == FlattenSeq(<<>>) = <<>>
<1>1. Len(<<>>) = 0
  BY EmptySeq
<1>2. QED
  BY <1>1 DEF FlattenSeq

SameUpTo(s, t, m) == \A i \in 1 .. m : s[i] = t[i]

(* Two sequences with the same beginning have the same partial results. *)
LEMMA FlattenAgrees ==
    ASSUME NEW s, NEW t, NEW m \in Nat, NEW n \in Nat, m <= n, SameUpTo(s, t, m),
           NEW f, NEW g, IsFlatten(f, s, m), IsFlatten(g, t, n)
    PROVE  SameUpTo(f, g, m)
<1> DEFINE S == {i \in Nat : i \in 1 .. m => f[i] = g[i]}
<1>1. 0 \in S
  OBVIOUS
<1>2. ASSUME NEW i \in Nat, i \in S PROVE i + 1 \in S
  <2> SUFFICES ASSUME i + 1 \in 1 .. m PROVE f[i + 1] = g[i + 1]
    OBVIOUS
  <2>1. /\ f[i + 1] = IF i + 1 = 1 THEN s[i + 1] ELSE f[(i + 1) - 1] \o s[i + 1]
        /\ g[i + 1] = IF i + 1 = 1 THEN t[i + 1] ELSE g[(i + 1) - 1] \o t[i + 1]
    <3>1. i + 1 \in 1 .. n
      OBVIOUS
    <3> HIDE DEF S
    <3>2. QED
      BY <3>1 DEF IsFlatten
  <2>2. (i + 1) - 1 = i /\ s[i + 1] = t[i + 1]
    BY DEF SameUpTo
  <2>3. CASE i = 0
    BY <2>1, <2>2, <2>3
  <2>4. CASE i # 0
    <3>1. f[i] = g[i]
      BY <1>2, <2>4
    <3>2. QED
      BY <2>1, <2>2, <2>4, <3>1
  <2>5. QED
    BY <2>3, <2>4
<1> HIDE DEF S
<1>3. \A i \in Nat : i \in S
  BY <1>1, <1>2, Induction
<1>4. QED
  BY <1>3 DEF S, SameUpTo

LEMMA FlattenAppend ==
    ASSUME NEW A, NEW s \in Seq(Seq(A)), NEW x \in Seq(A)
    PROVE  FlattenSeq(Append(s, x)) = FlattenSeq(s) \o x
<1> DEFINE t == Append(s, x)
           n == Len(s)
<1>1. /\ t \in Seq(Seq(A)) /\ t # <<>> /\ Len(t) = n + 1 /\ n \in Nat
      /\ \A i \in 1 .. n : t[i] = s[i]
      /\ t[n + 1] = x
  BY AppendProperties, LenProperties
<1>2. PICK g : IsFlatten(g, t, n + 1) /\ FlattenSeq(t) = g[n + 1]
  BY <1>1, FlattenIs
<1> HIDE DEF t
<1>3. CASE s = <<>>
  <2>1. n = 0
    BY <1>3, EmptySeq
  <2>2. g[1] = t[1]
    BY <1>2, <2>1 DEF IsFlatten
  <2>3. FlattenSeq(s) = <<>> /\ <<>> \o x = x
    BY <1>3, FlattenEmpty, ConcatEmptySeq
  <2>4. QED
    BY <1>1, <1>2, <2>1, <2>2, <2>3 DEF t
<1>4. CASE s # <<>>
  <2>1. n >= 1
    BY <1>1, <1>4, EmptySeq
  <2>2. PICK f : IsFlatten(f, s, n) /\ FlattenSeq(s) = f[n]
    BY <1>4, FlattenIs
  <2>3. SameUpTo(f, g, n)
    <3> DEFINE k == n + 1
    <3>1. n \in Nat /\ k \in Nat /\ n <= k /\ SameUpTo(s, t, n) /\ IsFlatten(g, t, k)
      BY <1>1, <1>2 DEF SameUpTo
    <3> HIDE DEF n, k
    <3>2. QED
      BY <2>2, <3>1, FlattenAgrees
  <2>4. f[n] = g[n]
    BY <1>1, <2>1, <2>3 DEF SameUpTo
  <2>5. g[n + 1] = g[n] \o t[n + 1]
    <3>3. n \in Nat /\ n + 1 \in 1 .. n + 1
      BY <1>1
    <3> HIDE DEF n
    <3>1. g[n + 1] = IF n + 1 = 1 THEN t[n + 1] ELSE g[(n + 1) - 1] \o t[n + 1]
      BY <1>2, <3>3 DEF IsFlatten
    <3>2. n + 1 # 1 /\ (n + 1) - 1 = n
      BY <1>1, <2>1
    <3>4. QED
      BY <3>1, <3>2
  <2>6. QED
    BY <1>1, <1>2, <2>2, <2>4, <2>5 DEF t
<1>5. QED
  BY <1>3, <1>4

(* Associativity, as a predicate so that the fact is used where it is named. *)
Regroups(s, t, u) == (s \o t) \o u = s \o (t \o u)

LEMMA Regroup ==
    ASSUME NEW A, NEW s \in Seq(A), NEW t \in Seq(A), NEW u \in Seq(A)
    PROVE  Regroups(s, t, u)
  BY ConcatAssociative DEF Regroups

LEMMA Prefix ==
    ASSUME NEW B, NEW s \in Seq(B), NEW k \in 0 .. Len(s)
    PROVE  /\ SubSeq(s, 1, k) \in Seq(B) /\ Len(SubSeq(s, 1, k)) = k
           /\ \A i \in 1 .. k : SubSeq(s, 1, k)[i] = s[i]
<1>1. Len(s) \in Nat /\ \A i \in 1 .. Len(s) : s[i] \in B
  BY LenProperties, ElementOfSeq
<1>2. k \in Int /\ 1 \in Int /\ \A i \in 1 .. k : s[i] \in B
  BY <1>1
<1>3. /\ SubSeq(s, 1, k) \in Seq(B)
      /\ Len(SubSeq(s, 1, k)) = IF 1 <= k THEN k - 1 + 1 ELSE 0
      /\ \A i \in 1 .. k - 1 + 1 : SubSeq(s, 1, k)[i] = s[1 + i - 1]
  BY <1>2, SubSeqProperties
<1>4. k - 1 + 1 = k /\ \A i \in 1 .. k : 1 + i - 1 = i
  BY <1>1
<1>5. QED
  BY <1>1, <1>3, <1>4

LEMMA PrefixGrows ==
    ASSUME NEW B, NEW s \in Seq(B), NEW k \in Nat, k < Len(s)
    PROVE  s[k + 1] \in B /\ SubSeq(s, 1, k + 1) = Append(SubSeq(s, 1, k), s[k + 1])
<1>1. Len(s) \in Nat
  BY LenProperties
<1>2. k \in 0 .. Len(s) /\ k + 1 \in 0 .. Len(s) /\ k + 1 \in 1 .. Len(s) /\ s[k + 1] \in B
  BY <1>1, ElementOfSeq
<1> DEFINE p == SubSeq(s, 1, k)
           q == SubSeq(s, 1, k + 1)
           a == Append(p, s[k + 1])
<1>3. p \in Seq(B) /\ Len(p) = k /\ \A i \in 1 .. k : p[i] = s[i]
  BY <1>2, Prefix
<1>4. q \in Seq(B) /\ Len(q) = k + 1 /\ \A i \in 1 .. k + 1 : q[i] = s[i]
  BY <1>2, Prefix
<1>5. /\ a \in Seq(B) /\ Len(a) = k + 1
      /\ \A i \in 1 .. k : a[i] = p[i]
      /\ a[k + 1] = s[k + 1]
  BY <1>2, <1>3, AppendProperties
<1>6. \A i \in 1 .. k + 1 : a[i] = q[i]
  BY <1>3, <1>4, <1>5
<1> HIDE DEF a, q
<1>7. a = q
  BY <1>4, <1>5, <1>6, SeqEqual
<1>8. QED
  BY <1>2, <1>7 DEF a, q

(* The concatenation of a sequence's first k elements. *)
Flat(s, k) == FlattenSeq(SubSeq(s, 1, k))

LEMMA FlatIs ==
    ASSUME NEW A, NEW s \in Seq(Seq(A))
    PROVE  /\ Flat(s, 0) = <<>>
           /\ Flat(s, Len(s)) = FlattenSeq(s)
           /\ \A k \in Nat : k < Len(s) =>
                s[k + 1] \in Seq(A) /\ Flat(s, k + 1) = Flat(s, k) \o s[k + 1]
<1>1. Flat(s, 0) = <<>>
  <2>1. SubSeq(s, 1, 0) = <<>>
    BY 1 \in Int, 0 \in Int, 0 < 1, SubSeqEmpty
  <2>2. QED
    BY <2>1, FlattenEmpty DEF Flat
<1>2. Flat(s, Len(s)) = FlattenSeq(s)
  BY SubSeqFull DEF Flat
<1>3. ASSUME NEW k \in Nat, k < Len(s)
      PROVE  s[k + 1] \in Seq(A) /\ Flat(s, k + 1) = Flat(s, k) \o s[k + 1]
  <2>1. Len(s) \in Nat
    BY LenProperties
  <2>2. k \in 0 .. Len(s)
    BY <1>3, <2>1
  <2>3. SubSeq(s, 1, k) \in Seq(Seq(A)) /\ s[k + 1] \in Seq(A)
    BY <1>3, <2>2, Prefix, PrefixGrows
  <2>4. SubSeq(s, 1, k + 1) = Append(SubSeq(s, 1, k), s[k + 1])
    BY <1>3, PrefixGrows
  <2>5. QED
    BY <2>3, <2>4, FlattenAppend DEF Flat
<1>4. QED
  BY <1>1, <1>2, <1>3

LEMMA FlatType ==
    ASSUME NEW A, NEW s \in Seq(Seq(A))
    PROVE  \A k \in Nat : k <= Len(s) => Flat(s, k) \in Seq(A)
<1> DEFINE S == {k \in Nat : k <= Len(s) => Flat(s, k) \in Seq(A)}
<1>1. 0 \in S
  BY FlatIs, EmptySeq
<1>2. ASSUME NEW k \in Nat, k \in S PROVE k + 1 \in S
  <2> SUFFICES ASSUME k + 1 <= Len(s) PROVE Flat(s, k + 1) \in Seq(A)
    OBVIOUS
  <2>1. k < Len(s) /\ k <= Len(s)
    BY LenProperties
  <2>2. Flat(s, k) \in Seq(A) /\ s[k + 1] \in Seq(A) /\ Flat(s, k + 1) = Flat(s, k) \o s[k + 1]
    BY <1>2, <2>1, FlatIs
  <2>3. QED
    BY <2>2, ConcatProperties
<1> HIDE DEF S
<1>3. \A k \in Nat : k \in S
  BY <1>1, <1>2, Induction
<1>4. QED
  BY <1>3 DEF S

LEMMA FlattenType ==
    ASSUME NEW A, NEW s \in Seq(Seq(A))
    PROVE  FlattenSeq(s) \in Seq(A)
<1>1. Len(s) \in Nat /\ Len(s) <= Len(s)
  BY LenProperties
<1>2. QED
  BY <1>1, FlatType, FlatIs

LEMMA FlattenConcat ==
    ASSUME NEW A, NEW s \in Seq(Seq(A)), NEW t \in Seq(Seq(A))
    PROVE  FlattenSeq(s \o t) = FlattenSeq(s) \o FlattenSeq(t)
<1> DEFINE P(k) == FlattenSeq(s \o SubSeq(t, 1, k)) = FlattenSeq(s) \o Flat(t, k)
           S == {k \in Nat : k <= Len(t) => P(k)}
<1>0. Len(t) \in Nat /\ FlattenSeq(s) \in Seq(A)
  BY LenProperties, FlattenType
<1>1. 0 \in S
  <2>1. s \o SubSeq(t, 1, 0) = s
    BY SubSeqEmpty, ConcatEmptySeq
  <2>2. FlattenSeq(s) \o Flat(t, 0) = FlattenSeq(s)
    BY <1>0, FlatIs, ConcatEmptySeq
  <2>3. QED
    BY <2>1, <2>2
<1>2. ASSUME NEW k \in Nat, k \in S PROVE k + 1 \in S
  <2> SUFFICES ASSUME k + 1 <= Len(t) PROVE P(k + 1)
    OBVIOUS
  <2>1. k < Len(t) /\ k <= Len(t) /\ k \in 0 .. Len(t)
    BY <1>0
  <2> DEFINE p == SubSeq(t, 1, k)
             x == t[k + 1]
  <2>2. p \in Seq(Seq(A)) /\ x \in Seq(A) /\ SubSeq(t, 1, k + 1) = Append(p, x)
    BY <2>1, Prefix, PrefixGrows
  <2>3. Flat(t, k + 1) = Flat(t, k) \o x /\ Flat(t, k) \in Seq(A)
    BY <2>1, FlatIs, FlatType
  <2>4. P(k)
    BY <1>2, <2>1
  <2> HIDE DEF p, x
  <2>5. s \o Append(p, x) = Append(s \o p, x) /\ s \o p \in Seq(Seq(A))
    <3>1. /\ Append(p, x) = p \o <<x>> /\ <<x>> \in Seq(Seq(A)) /\ s \o p \in Seq(Seq(A))
      BY <2>2, AppendIsConcat, ConcatProperties
    <3>2. Regroups(s, p, <<x>>)
      BY <2>2, <3>1, Regroup
    <3>3. Append(s \o p, x) = (s \o p) \o <<x>>
      BY <2>2, <3>1, AppendIsConcat
    <3>4. QED
      BY <3>1, <3>2, <3>3 DEF Regroups
  <2>6. FlattenSeq(Append(s \o p, x)) = FlattenSeq(s \o p) \o x
    BY <2>2, <2>5, FlattenAppend
  <2>7. Regroups(FlattenSeq(s), Flat(t, k), x)
    BY <1>0, <2>2, <2>3, Regroup
  <2>8. FlattenSeq(s \o p) = FlattenSeq(s) \o Flat(t, k)
    BY <2>4 DEF p
  <2>9. QED
    BY <2>2, <2>3, <2>5, <2>6, <2>7, <2>8 DEF Regroups
<1> HIDE DEF S
<1>3. \A k \in Nat : k \in S
  BY <1>1, <1>2, Induction
<1>4. P(Len(t))
  BY <1>0, <1>3 DEF S
<1>5. SubSeq(t, 1, Len(t)) = t /\ Flat(t, Len(t)) = FlattenSeq(t)
  BY SubSeqFull, FlatIs
<1>6. QED
  BY <1>4, <1>5

LEMMA FlattenOne ==
    ASSUME NEW A, NEW x \in Seq(A)
    PROVE  FlattenSeq(<<x>>) = x
<1>1. Append(<<>>, x) = <<x>> /\ <<>> \in Seq(Seq(A))
  BY EmptySeq
<1>2. FlattenSeq(Append(<<>>, x)) = FlattenSeq(<<>>) \o x
  BY <1>1, FlattenAppend
<1>3. QED
  BY <1>1, <1>2, FlattenEmpty, ConcatEmptySeq

-----------------------------------------------------------------------------
(* Ascending.                                                              *)

(* How many elements of S are at most x. *)
Rank(S, x) == Cardinality({y \in S : y <= x})

LEMMA RankType ==
    ASSUME NEW S \in SUBSET Nat, NEW x \in Nat
    PROVE  IsFiniteSet({y \in S : y <= x}) /\ Rank(S, x) \in Nat
<1>1. {y \in S : y <= x} \in SUBSET Nat /\ \A y \in {y \in S : y <= x} : y <= x
  OBVIOUS
<1>2. IsFiniteSet({y \in S : y <= x})
  BY <1>1, FS_BoundedSetOfNaturals
<1>3. QED
  BY <1>2, FS_CardinalityType DEF Rank

(* Where S has no element the rank does not change. *)
LEMMA RankSkips ==
    ASSUME NEW S \in SUBSET Nat, NEW x \in Nat, NEW z \in Nat, x <= z,
           \A y \in x + 1 .. z : y \notin S
    PROVE  Rank(S, z) = Rank(S, x)
<1>1. {y \in S : y <= z} = {y \in S : y <= x}
  <2>1. ASSUME NEW y \in S, y <= z PROVE y <= x
    <3>1. y \in Nat /\ y \notin x + 1 .. z
      OBVIOUS
    <3>2. QED
      BY <2>1, <3>1
  <2>2. ASSUME NEW y \in S, y <= x PROVE y <= z
    BY <2>2
  <2>3. QED
    BY <2>1, <2>2
<1>2. QED
  BY <1>1 DEF Rank

(* Where every number is an element of S it counts. *)
LEMMA RankCounts ==
    ASSUME NEW S \in SUBSET Nat, NEW x \in Nat, NEW z \in Nat, x <= z, x + 1 .. z \subseteq S
    PROVE  Rank(S, z) = Rank(S, x) + (z - x)
<1> DEFINE U == {y \in S : y <= x}
           V == x + 1 .. z
<1>1. IsFiniteSet(U) /\ Cardinality(U) \in Nat
  BY RankType DEF Rank
<1>2. IsFiniteSet(V) /\ Cardinality(V) = z - x
  <2>1. x + 1 \in Int /\ z \in Int
    OBVIOUS
  <2>2. IsFiniteSet(V) /\ Cardinality(V) = IF x + 1 > z THEN 0 ELSE z - (x + 1) + 1
    BY <2>1, FS_Interval
  <2>3. QED
    BY <2>2
<1>3. {y \in S : y <= z} = U \cup V /\ U \cap V = {}
  <2>1. ASSUME NEW y \in S, y <= z PROVE y \in U \cup V
    BY <2>1
  <2>2. ASSUME NEW y \in U \cup V PROVE y \in S /\ y <= z
    <3>1. CASE y \in U
      BY <3>1
    <3>2. CASE y \in V
      BY <3>2
    <3>3. QED
      BY <3>1, <3>2
  <2>3. ASSUME NEW y \in U, y \in V PROVE FALSE
    BY <2>3
  <2>4. QED
    BY <2>1, <2>2, <2>3
<1> HIDE DEF U, V
<1>4. Cardinality(U \cup V) = Cardinality(U) + Cardinality(V) - Cardinality(U \cap V)
  BY <1>1, <1>2, FS_Union
<1>5. Cardinality(U \cap V) = 0
  BY <1>3, FS_EmptySet
<1>6. Rank(S, z) = Cardinality(U \cup V) /\ Rank(S, x) = Cardinality(U)
  BY <1>3 DEF Rank, U
<1>7. QED
  BY <1>1, <1>2, <1>4, <1>5, <1>6

LEMMA RankGrows ==
    ASSUME NEW S \in SUBSET Nat, NEW x \in Nat, NEW z \in S, x < z
    PROVE  Rank(S, x) < Rank(S, z)
<1> DEFINE U == {y \in S : y <= x}
           V == {y \in S : y <= z}
<1>1. U \in SUBSET V /\ z \in V /\ z \notin U /\ z \in Nat
  <2>1. z \in Nat /\ \A y \in S : y \in Nat
    OBVIOUS
  <2>2. ASSUME NEW y \in U PROVE y \in V
    BY <2>1
  <2>3. z \in V /\ z \notin U
    BY <2>1
  <2>4. QED
    BY <2>1, <2>2, <2>3
<1>2. IsFiniteSet(V) /\ Cardinality(V) \in Nat /\ Cardinality(U) \in Nat
  BY <1>1, RankType DEF Rank
<1> HIDE DEF U, V
<1>3. Cardinality(U) <= Cardinality(V) /\ (Cardinality(V) = Cardinality(U) => V = U)
  BY <1>1, <1>2, FS_Subset
<1>4. Cardinality(U) < Cardinality(V)
  BY <1>1, <1>2, <1>3
<1>5. QED
  BY <1>4 DEF Rank, U, V

(* Above every element the rank is the number of elements. *)
LEMMA RankAll ==
    ASSUME NEW S \in SUBSET Nat, NEW x \in Nat, \A y \in S : y <= x
    PROVE  IsFiniteSet(S) /\ Cardinality(S) = Rank(S, x)
<1>1. {y \in S : y <= x} = S
  OBVIOUS
<1>2. QED
  BY <1>1, RankType DEF Rank

LEMMA RankBound ==
    ASSUME NEW S \in SUBSET Nat, IsFiniteSet(S), NEW x \in S
    PROVE  Rank(S, x) \in 1 .. Cardinality(S) /\ Cardinality(S) \in Nat
<1> DEFINE U == {y \in S : y <= x}
<1>1. U \in SUBSET S /\ x \in U /\ x \in Nat
  OBVIOUS
<1>2. Cardinality(U) \in Nat /\ IsFiniteSet(U) /\ Cardinality(S) \in Nat
  BY <1>1, RankType, FS_CardinalityType DEF Rank
<1>3. Cardinality(U) <= Cardinality(S)
  BY <1>1, FS_Subset
<1>4. Cardinality(U) # 0
  BY <1>1, <1>2, FS_EmptySet
<1> HIDE DEF U
<1>5. Cardinality(U) \in 1 .. Cardinality(S)
  BY <1>2, <1>3, <1>4
<1>6. QED
  BY <1>2, <1>5 DEF Rank, U

(* Ascending lists the elements by rank. *)
LEMMA AscendingIs ==
    ASSUME NEW S \in SUBSET Nat, IsFiniteSet(S)
    PROVE  LET a == Ascending(S) IN
           /\ Len(a) = Cardinality(S) /\ DOMAIN a = 1 .. Cardinality(S) /\ Cardinality(S) \in Nat
           /\ \A k \in 1 .. Cardinality(S) : a[k] \in S /\ Rank(S, a[k]) = k
           /\ \A x \in S : Rank(S, x) \in 1 .. Cardinality(S) /\ a[Rank(S, x)] = x
<1> DEFINE a == Ascending(S)
           n == Cardinality(S)
           r == [x \in S |-> Rank(S, x)]
<1>1. n \in Nat
  BY FS_CardinalityType
<1>2. \A x \in S : r[x] \in 1 .. n
  BY RankBound
<1>3. \A x, z \in S : r[x] = r[z] => x = z
  <2> SUFFICES ASSUME NEW x \in S, NEW z \in S, Rank(S, x) = Rank(S, z), x # z PROVE FALSE
    OBVIOUS
  <2>1. x \in Nat /\ z \in Nat /\ Rank(S, x) \in Nat /\ Rank(S, z) \in Nat
    BY RankType
  <2>2. CASE x < z
    BY <2>1, <2>2, RankGrows
  <2>3. CASE z < x
    BY <2>1, <2>3, RankGrows
  <2>4. QED
    BY <2>1, <2>2, <2>3
<1>4. r \in Injection(S, 1 .. n)
  BY <1>2, <1>3 DEF Injection, IsInjective
<1>5. IsFiniteSet(1 .. n) /\ Cardinality(1 .. n) = n
  <2>1. IsFiniteSet(1 .. n) /\ Cardinality(1 .. n) = IF 1 > n THEN 0 ELSE n - 1 + 1
    BY <1>1, FS_Interval
  <2>2. QED
    BY <1>1, <2>1
<1>6. r \in Surjection(S, 1 .. n)
  BY <1>4, <1>5, FS_Injection
<1>7. \A k \in 1 .. n : \E x \in S : Rank(S, x) = k
  BY <1>6 DEF Surjection
<1>8. a = [k \in 1 .. n |-> CHOOSE x \in S : Rank(S, x) = k]
  BY DEF Ascending, Rank
<1> HIDE DEF a
<1>9. \A k \in 1 .. n : a[k] \in S /\ Rank(S, a[k]) = k
  BY <1>7, <1>8
<1>10. \A x \in S : Rank(S, x) \in 1 .. n /\ a[Rank(S, x)] = x
  BY <1>2, <1>3, <1>9
<1>11. Len(a) = n /\ DOMAIN a = 1 .. n
  BY <1>1, <1>8
<1>12. QED
  BY <1>1, <1>9, <1>10, <1>11 DEF a

-----------------------------------------------------------------------------
(* wrapped_text_lines: lines.                                              *)

Ends(t) == {i \in 1 .. Len(t) : t[i] = "nl" \/ i = Len(t)}
LineStart(t, e) == 1 + Max({0} \cup {d \in Ends(t) : d < e})
LineStop(t, e) ==
    IF t[e] # "nl" THEN e
    ELSE IF e > LineStart(t, e) /\ t[e - 1] = "cr" THEN e - 2 ELSE e - 1

(* The line ends, what is between them and where a blank line is: as in    *)
(* RowsAreTheFile.                                                         *)
EndsLine(t, i) ==
    \/ i <= Len(t) /\ t[i] = "nl"
    \/ i <= Len(t) /\ t[i] = "cr" /\ i + 1 <= Len(t) /\ t[i + 1] = "nl"
Kept(t) == {i \in 1 .. Len(t) : ~EndsLine(t, i)}
Blanks(t) == {i \in 1 .. Len(t) : EndsLine(t, i) /\ (i > 1 => i - 1 <= Len(t) /\ t[i - 1] = "nl")}

(* The end of the line before line k. *)
Before(t, k) == IF k = 1 THEN 0 ELSE Ascending(Ends(t))[k - 1]

LEMMA SubsetOfPositions ==
    ASSUME NEW n \in Nat, NEW S \in SUBSET (1 .. n)
    PROVE  S \in SUBSET Nat /\ IsFiniteSet(S) /\ Cardinality(S) = Rank(S, n)
<1>1. S \in SUBSET Nat /\ \A y \in S : y <= n
  OBVIOUS
<1>2. QED
  BY <1>1, RankAll

LEMMA MaxIs ==
    ASSUME NEW S \in SUBSET Nat, NEW x \in S, \A z \in S : z <= x
    PROVE  Max(S) = x
<1> DEFINE c == CHOOSE y \in S : \A z \in S : y >= z
<1>1. \A z \in S : x >= z
  OBVIOUS
<1>2. c \in S /\ \A z \in S : c >= z
  BY <1>1
<1> HIDE DEF c
<1>3. c = x
  BY <1>1, <1>2
<1>4. QED
  BY <1>3 DEF c, Max

LEMMA EndsAre ==
    ASSUME NEW C, NEW t \in Seq(C)
    PROVE  LET E == Ends(t)
               m == Cardinality(E)
               a == Ascending(E)
           IN  /\ Len(t) \in Nat /\ E \in SUBSET (1 .. Len(t)) /\ E \in SUBSET Nat
               /\ IsFiniteSet(E) /\ m \in Nat /\ (t # <<>> => m >= 1)
               /\ \A k \in 1 .. m :
                    /\ a[k] \in E /\ Before(t, k) \in 0 .. Len(t) /\ Before(t, k) < a[k]
                    /\ \A i \in Before(t, k) + 1 .. a[k] - 1 : i \notin E
                    /\ k > 1 => Before(t, k) \in E
                    /\ LineStart(t, a[k]) = Before(t, k) + 1
               /\ t # <<>> => a[m] = Len(t)
<1> DEFINE E == Ends(t)
           m == Cardinality(E)
           a == Ascending(E)
           n == Len(t)
<1>1. n \in Nat /\ E \in SUBSET (1 .. n) /\ (t # <<>> => n >= 1 /\ n \in E)
  BY LenProperties, EmptySeq DEF Ends
<1>2. E \in SUBSET Nat /\ IsFiniteSet(E) /\ \A x \in E : x <= n
  BY <1>1, SubsetOfPositions
<1>3. /\ m \in Nat
      /\ \A k \in 1 .. m : a[k] \in E /\ Rank(E, a[k]) = k
      /\ \A x \in E : Rank(E, x) \in 1 .. m /\ a[Rank(E, x)] = x
  BY <1>2, AscendingIs
<1> HIDE DEF E, m, a
<1>4. t # <<>> => m >= 1
  <2>1. t # <<>> => Rank(E, n) \in 1 .. m
    BY <1>1, <1>3
  <2>2. QED
    BY <1>3, <2>1
<1>5. ASSUME t # <<>> PROVE a[m] = n
  <2>1. a[m] \in E /\ Rank(E, a[m]) = m /\ a[m] \in Nat /\ a[m] <= n /\ n \in E
    <3>1. m \in 1 .. m
      BY <1>3, <1>4, <1>5
    <3>2. a[m] \in E /\ Rank(E, a[m]) = m
      BY <1>3, <3>1
    <3>3. QED
      BY <1>1, <1>2, <1>5, <3>2
  <2>2. Rank(E, n) \in 1 .. m
    BY <1>3, <2>1
  <2>3. ~(a[m] < n)
    <3>1. a[m] < n => Rank(E, a[m]) < Rank(E, n)
      BY <1>2, <2>1, RankGrows
    <3>2. QED
      BY <1>3, <2>1, <2>2, <3>1
  <2>4. QED
    BY <1>1, <2>1, <2>3
<1>6. ASSUME NEW k \in 1 .. m
      PROVE  /\ a[k] \in E /\ Before(t, k) \in 0 .. n /\ Before(t, k) < a[k]
             /\ \A i \in Before(t, k) + 1 .. a[k] - 1 : i \notin E
             /\ k > 1 => Before(t, k) \in E
             /\ LineStart(t, a[k]) = Before(t, k) + 1
  <2> DEFINE p == Before(t, k)
             e == a[k]
  <2>1. e \in E /\ e \in Nat /\ e <= n /\ e >= 1 /\ Rank(E, e) = k /\ k \in Nat /\ k >= 1
    <3>1. e \in E /\ Rank(E, e) = k /\ k \in Nat /\ k >= 1
      BY <1>3
    <3>2. e \in 1 .. n
      BY <1>1, <3>1
    <3>3. QED
      BY <1>1, <3>1, <3>2
  <2>2. p \in Nat /\ p <= n /\ (k > 1 => p \in E) /\ Rank(E, p) = k - 1
    <3>1. CASE k = 1
      <4>1. p = 0
        BY <3>1 DEF Before
      <4>2. {y \in E : y <= 0} = {}
        <5>1. \A y \in E : y \in 1 .. n /\ ~(y <= 0)
          BY <1>1
        <5>2. QED
          BY <5>1
      <4>3. Rank(E, 0) = 0
        BY <4>2, FS_EmptySet DEF Rank
      <4>4. QED
        BY <1>1, <3>1, <4>1, <4>3
    <3>2. CASE k > 1
      <4>1. k - 1 \in 1 .. m /\ p = a[k - 1]
        BY <1>3, <2>1, <3>2 DEF Before, a, E
      <4>2. QED
        BY <1>2, <1>3, <3>2, <4>1
    <3>3. QED
      BY <2>1, <3>1, <3>2
  <2> HIDE DEF p, e
  <2>3. p < e
    <3>1. e < p => p \in E /\ Rank(E, e) < Rank(E, p)
      <4>1. e < p => p \in E
        BY <2>1, <2>2 DEF p, Before
      <4>2. QED
        BY <1>2, <2>1, <4>1, RankGrows
    <3>2. QED
      BY <2>1, <2>2, <3>1
  <2>4. ASSUME NEW i \in E, p < i, i < e PROVE FALSE
    <3>1. i \in Nat /\ Rank(E, p) < Rank(E, i) /\ Rank(E, i) < Rank(E, e)
      BY <1>2, <2>1, <2>2, <2>4, RankGrows
    <3>2. Rank(E, i) \in Nat
      BY <1>2, <3>1, RankType
    <3>3. QED
      BY <2>1, <2>2, <3>1, <3>2
  <2>5. LineStart(t, e) = p + 1
    <3> DEFINE M == {0} \cup {d \in E : d < e}
    <3>1. p \in M
      <4>1. k = 1 => p = 0
        BY DEF p, Before
      <4>2. p = 0 \/ p \in E
        BY <2>1, <2>2, <4>1
      <4>3. QED
        BY <2>3, <4>2
    <3>2. M \in SUBSET Nat
      <4>1. \A z \in E : z \in Nat
        BY <1>2
      <4>2. \A z \in M : z \in Nat
        BY <4>1
      <4>3. QED
        BY <4>2
    <3>3. \A z \in M : z <= p
      <4>1. ASSUME NEW z \in E, z < e PROVE z <= p
        BY <1>2, <2>2, <2>4, <4>1
      <4>2. QED
        BY <2>2, <4>1
    <3> HIDE DEF M
    <3>4. Max(M) = p
      BY <3>1, <3>2, <3>3, MaxIs
    <3>5. LineStart(t, e) = 1 + Max(M)
      BY DEF LineStart, M, E
    <3>6. QED
      BY <2>2, <3>4, <3>5
  <2>6. \A i \in p + 1 .. e - 1 : i \notin E
    BY <2>1, <2>2, <2>4
  <2>7. p \in 0 .. n
    BY <1>1, <2>2
  <2>8. QED
    BY <2>1, <2>2, <2>3, <2>5, <2>6, <2>7 DEF p, e
<1>7. QED
  BY <1>1, <1>2, <1>3, <1>4, <1>5, <1>6 DEF E, m, a

LEMMA TextLinesIs ==
    ASSUME NEW C, NEW t \in Seq(C)
    PROVE  LET a == Ascending(Ends(t)) IN
           TextLines(t) = [k \in 1 .. Cardinality(Ends(t)) |->
                              SubSeq(t, LineStart(t, a[k]), LineStop(t, a[k]))]
<1>1. Len(Ascending(Ends(t))) = Cardinality(Ends(t))
  BY EndsAre, AscendingIs
<1>2. QED
  BY <1>1 DEF TextLines, Ends, LineStart, LineStop

(* What line k holds: the positions from LineStart to LineStop are kept,   *)
(* those up to the line's end are not, and the line is blank where a blank *)
(* begins.                                                                 *)
LEMMA LineIs ==
    ASSUME NEW C, NEW t \in Seq(C), NEW k \in 1 .. Cardinality(Ends(t))
    PROVE  LET e == Ascending(Ends(t))[k]
               p == Before(t, k)
               f == LineStart(t, e)
               l == LineStop(t, e)
           IN  /\ p \in Nat /\ f = p + 1 /\ l \in p .. e /\ e \in 1 .. Len(t) /\ p < e
               /\ p + 1 .. l \subseteq Kept(t)
               /\ \A i \in l + 1 .. e : i \notin Kept(t)
               /\ l = p => p + 1 \in Blanks(t)
               /\ l # p => p + 1 \notin Blanks(t)
               /\ \A i \in p + 2 .. e : i \notin Blanks(t)
<1> DEFINE E == Ends(t)
           e == Ascending(E)[k]
           p == Before(t, k)
           f == LineStart(t, e)
           l == LineStop(t, e)
           n == Len(t)
<1>1. n \in Nat /\ \A i \in E : i \in 1 .. n /\ (t[i] = "nl" \/ i = n)
  BY LenProperties DEF Ends
<1>2. \A i \in 1 .. n : i \notin E => t[i] # "nl" /\ i # n
  BY DEF Ends
<1>3. /\ e \in E /\ p \in 0 .. n /\ p < e
      /\ \A i \in p + 1 .. e - 1 : i \notin E
      /\ k > 1 => p \in E
      /\ f = p + 1
  BY EndsAre
<1>4. k \in Nat /\ k >= 1 /\ (k = 1 => p = 0)
  <2>1. Cardinality(E) \in Nat
    BY EndsAre
  <2>2. QED
    BY <2>1 DEF Before
<1>5. l = IF t[e] # "nl" THEN e
          ELSE IF e > f /\ t[e - 1] = "cr" THEN e - 2 ELSE e - 1
  BY DEF LineStop
<1> HIDE DEF E, e, p, f, l
<1>6. e \in 1 .. n /\ (t[e] # "nl" => e = n)
  BY <1>1, <1>3
<1>7. \A i \in p + 1 .. e - 1 : i \in 1 .. n /\ t[i] # "nl"
  BY <1>1, <1>2, <1>3, <1>6
<1>8. p > 0 => t[p] = "nl"
  BY <1>1, <1>3, <1>4, <1>6
<1>9. l \in p .. e
  BY <1>3, <1>5, <1>6
<1>10. ASSUME NEW i \in p + 1 .. l PROVE i \in Kept(t)
  <2>1. i \in 1 .. n /\ i <= e
    BY <1>3, <1>6, <1>9
  <2>2. t[i] # "nl"
    BY <1>3, <1>5, <1>6, <1>7, <2>1
  <2>3. ~(t[i] = "cr" /\ i + 1 <= n /\ t[i + 1] = "nl")
    <3> SUFFICES ASSUME t[i] = "cr", i + 1 <= n, t[i + 1] = "nl" PROVE FALSE
      OBVIOUS
    <3>1. i + 1 <= e
      BY <1>5, <1>6, <2>1, <2>2
    <3>2. ~(i + 1 <= e - 1)
      BY <1>3, <1>6, <1>7, <2>1
    <3>3. i = e - 1 /\ e > f /\ t[e] = "nl" /\ t[e - 1] = "cr"
      BY <1>3, <1>6, <2>1, <3>1, <3>2
    <3>4. l = e - 2
      BY <1>5, <3>3
    <3>5. QED
      BY <1>6, <3>3, <3>4
  <2>4. QED
    BY <2>1, <2>2, <2>3 DEF Kept, EndsLine
<1>11. ASSUME NEW i \in l + 1 .. e PROVE i \notin Kept(t)
  <2>1. i \in 1 .. n
    BY <1>1, <1>3, <1>6, <1>9
  <2>2. t[e] = "nl"
    BY <1>5, <1>6
  <2>3. CASE i = e
    BY <1>6, <2>1, <2>2, <2>3 DEF Kept, EndsLine
  <2>4. CASE i # e
    <3>1. e > f /\ t[e - 1] = "cr" /\ i = e - 1
      BY <1>5, <1>6, <2>2, <2>4
    <3>2. t[i] = "cr" /\ i + 1 = e /\ e <= n
      BY <1>6, <3>1
    <3>3. QED
      BY <2>1, <2>2, <3>2 DEF Kept, EndsLine
  <2>5. QED
    BY <2>3, <2>4
<1>12. p + 1 \in 1 .. n /\ p + 1 <= e
  BY <1>1, <1>3, <1>6
<1>13. EndsLine(t, p + 1) <=> l = p
  <2>1. CASE l = p
    <3>1. p + 1 \in l + 1 .. e
      BY <1>3, <1>6, <1>12, <2>1
    <3>2. QED
      BY <1>11, <1>12, <2>1, <3>1 DEF Kept
  <2>2. CASE l # p
    <3>1. p + 1 \in p + 1 .. l
      BY <1>3, <1>6, <1>9, <2>2
    <3>2. QED
      BY <1>10, <2>2, <3>1 DEF Kept
  <2>3. QED
    BY <2>1, <2>2
<1>14. p + 1 > 1 => (p + 1) - 1 <= n /\ t[(p + 1) - 1] = "nl"
  <2>1. (p + 1) - 1 = p
    BY <1>3
  <2>2. QED
    BY <1>1, <1>3, <1>8, <2>1
<1>15. p + 1 \in Blanks(t) <=> l = p
  BY <1>12, <1>13, <1>14 DEF Blanks
<1>16. ASSUME NEW i \in p + 2 .. e PROVE i \notin Blanks(t)
  <2>1. i > 1 /\ i - 1 \in p + 1 .. e - 1
    BY <1>3, <1>6
  <2>2. t[i - 1] # "nl"
    BY <1>7, <2>1
  <2>3. QED
    BY <2>1, <2>2 DEF Blanks
<1>17. p \in Nat
  BY <1>3
<1>18. QED
  BY <1>3, <1>6, <1>9, <1>10, <1>11, <1>15, <1>16, <1>17 DEF E, e, p, f, l

-----------------------------------------------------------------------------
(* wrapped_text_lines: rows.                                               *)

(* A line that is not empty is cut into rows that are not empty. *)
LEMMA ChunksAre ==
    ASSUME NEW C, NEW s \in Seq(C), s # <<>>, NEW w \in Nat \ {0}
    PROVE  /\ Chunks(s, w) \in Seq(Seq(C)) /\ Chunks(s, w) # <<>>
           /\ \A k \in 1 .. Len(Chunks(s, w)) :
                Chunks(s, w)[k] # <<>> /\ Len(Chunks(s, w)[k]) <= w
           /\ FlattenSeq(Chunks(s, w)) = s
<1> DEFINE n == Len(s)
           q == CeilDiv(n, w)
           cut(k) == Lesser(k * w, n)
           part(k) == SubSeq(s, (k - 1) * w + 1, cut(k))
           c == Chunks(s, w)
<1>1. n \in Nat /\ n >= 1
  BY LenProperties, EmptySeq
<1>2. q \in Nat /\ q >= 1 /\ n <= q * w /\ q * w < n + w
  BY <1>1, CeilDivIs
<1> HIDE DEF n, q
<1>3. c = [k \in 1 .. q |-> part(k)]
  BY DEF Chunks, n, q
<1>4. ASSUME NEW k \in 1 .. q
      PROVE  /\ k * w \in Nat /\ (k - 1) * w \in Nat /\ k * w = (k - 1) * w + w
             /\ (k - 1) * w < n /\ cut(k) \in (k - 1) * w + 1 .. n /\ cut(k) <= k * w
  <2>1. k \in Nat /\ k - 1 \in Nat /\ q - 1 \in Nat /\ k - 1 <= q - 1
    BY <1>2
  <2>2. k * w \in Nat /\ (k - 1) * w \in Nat /\ (q - 1) * w \in Nat
    BY <2>1, ProductType
  <2>3. k * w = (k - 1) * w + w /\ q * w = (q - 1) * w + w
    BY <1>2, <2>1
  <2>4. (k - 1) * w <= (q - 1) * w
    BY <2>1, ProductGrows
  <2>5. (k - 1) * w < n
    BY <1>1, <1>2, <2>2, <2>3, <2>4
  <2>6. cut(k) \in Nat /\ cut(k) <= k * w /\ cut(k) <= n /\ (cut(k) = k * w \/ cut(k) = n)
    BY <1>1, <2>2, LesserIs
  <2>7. QED
    BY <1>1, <2>2, <2>3, <2>5, <2>6
<1>5. ASSUME NEW k \in 1 .. q
      PROVE  part(k) \in Seq(C) /\ part(k) # <<>> /\ Len(part(k)) <= w
  <2> DEFINE a == (k - 1) * w
             b == cut(k)
  <2>1. a \in Nat /\ b \in a + 1 .. n /\ b <= a + w
    BY <1>4
  <2> HIDE DEF a, b
  <2>2. a + 1 \in Int /\ b \in Int /\ \A i \in a + 1 .. b : s[i] \in C
    BY <1>1, <2>1, ElementOfSeq DEF n
  <2>3. /\ SubSeq(s, a + 1, b) \in Seq(C)
        /\ Len(SubSeq(s, a + 1, b)) = IF a + 1 <= b THEN b - (a + 1) + 1 ELSE 0
    BY <2>2, SubSeqProperties
  <2>4. Len(SubSeq(s, a + 1, b)) = b - a
    BY <1>1, <2>1, <2>3
  <2>5. b - a >= 1 /\ b - a <= w
    BY <1>1, <2>1
  <2>6. SubSeq(s, a + 1, b) # <<>>
    <3>1. Len(<<>>) = 0
      BY EmptySeq
    <3>2. Len(SubSeq(s, a + 1, b)) # 0
      BY <2>1, <2>4, <2>5
    <3>3. QED
      BY <3>1, <3>2
  <2>7. QED
    BY <2>3, <2>4, <2>5, <2>6 DEF a, b
<1> HIDE DEF part
<1>6. c \in Seq(Seq(C)) /\ Len(c) = q
  BY <1>2, <1>3, <1>5
<1>7. c # <<>>
  BY <1>2, <1>6, EmptySeq
<1> HIDE DEF c
<1>8. \A k \in 1 .. Len(c) : c[k] # <<>> /\ Len(c[k]) <= w
  BY <1>3, <1>5, <1>6
<1> DEFINE P(k) == Flat(c, k) = SubSeq(s, 1, cut(k))
           S == {k \in Nat : k <= q => P(k)}
<1>9. 0 \in S
  <2>1. cut(0) = 0
    <3>1. 0 * w = 0
      OBVIOUS
    <3>2. QED
      BY <1>1, <3>1 DEF Lesser
  <2>2. SubSeq(s, 1, 0) = <<>>
    BY 1 \in Int, 0 \in Int, 0 < 1, SubSeqEmpty
  <2>3. Flat(c, 0) = <<>>
    BY <1>6, FlatIs
  <2>4. QED
    BY <2>1, <2>2, <2>3
<1>10. ASSUME NEW k \in Nat, k \in S PROVE k + 1 \in S
  <2> SUFFICES ASSUME k + 1 <= q PROVE P(k + 1)
    OBVIOUS
  <2>1. P(k) /\ k < Len(c) /\ k + 1 \in 1 .. q /\ (k + 1) - 1 = k
    BY <1>2, <1>6, <1>10
  <2>2. Flat(c, k + 1) = Flat(c, k) \o c[k + 1]
    BY <1>6, <2>1, FlatIs
  <2>3. c[k + 1] = SubSeq(s, k * w + 1, cut(k + 1))
    BY <1>3, <2>1 DEF part
  <2> DEFINE a == k * w
             b == cut(k + 1)
  <2>4. a \in Nat /\ a < n /\ b \in a + 1 .. n
    BY <1>4, <2>1
  <2>5. cut(k) = a
    BY <1>1, <2>4 DEF Lesser
  <2> HIDE DEF a, b
  <2>6. SubSeq(s, 1, a) \o SubSeq(s, a + 1, b) = SubSeq(s, 1, b)
    <3>1. 1 \in 1 .. Len(s) + 1 /\ a \in 1 - 1 .. Len(s) /\ b \in a .. Len(s)
      BY <1>1, <2>4 DEF n
    <3>2. QED
      BY <3>1, ConcatAdjacentSubSeq
  <2>7. Flat(c, k) = SubSeq(s, 1, a) /\ c[k + 1] = SubSeq(s, a + 1, b)
    BY <2>1, <2>3, <2>5 DEF a, b
  <2>8. Flat(c, k + 1) = SubSeq(s, 1, b)
    BY <2>2, <2>6, <2>7
  <2>9. QED
    BY <2>8 DEF b
<1> HIDE DEF S
<1>11. \A k \in Nat : k \in S
  BY <1>9, <1>10, Induction
<1>12. P(q)
  BY <1>2, <1>11 DEF S
<1>13. cut(q) = n
  BY <1>1, <1>2, ProductType DEF Lesser
<1>14. SubSeq(s, 1, n) = s
  BY SubSeqFull DEF n
<1>15. FlattenSeq(c) = s
  BY <1>6, <1>12, <1>13, <1>14, FlatIs
<1>16. QED
  BY <1>6, <1>7, <1>8, <1>15 DEF c

(* The rows of line k. *)
Group(line, w) == IF line = <<>> THEN <<<<>>>> ELSE Chunks(line, w)

LEMMA GroupIs ==
    ASSUME NEW C, NEW s \in Seq(C), NEW w \in Nat \ {0}
    PROVE  /\ Group(s, w) \in Seq(Seq(C)) /\ Group(s, w) # <<>>
           /\ \A k \in 1 .. Len(Group(s, w)) : Len(Group(s, w)[k]) <= w
           /\ FlattenSeq(Group(s, w)) = s
           /\ s = <<>> => Group(s, w) = <<<<>>>>
           /\ s # <<>> => \A k \in 1 .. Len(Group(s, w)) : Group(s, w)[k] # <<>>
<1>1. CASE s = <<>>
  <2>1. Group(s, w) = <<<<>>>>
    BY <1>1 DEF Group
  <2>2. <<>> \in Seq(C) /\ Len(<<>>) = 0
    BY EmptySeq
  <2>3. /\ <<<<>>>> \in Seq(Seq(C)) /\ Len(<<<<>>>>) = 1 /\ <<<<>>>> # <<>>
        /\ \A k \in 1 .. 1 : <<<<>>>>[k] = <<>>
    BY <2>2
  <2>4. FlattenSeq(<<<<>>>>) = <<>>
    BY <2>2, FlattenOne
  <2> DEFINE g == Group(s, w)
  <2>5. /\ g \in Seq(Seq(C)) /\ Len(g) = 1 /\ g # <<>> /\ FlattenSeq(g) = s
        /\ \A k \in 1 .. 1 : g[k] = <<>>
    BY <1>1, <2>1, <2>3, <2>4
  <2> HIDE DEF g
  <2>6. \A k \in 1 .. Len(g) : Len(g[k]) <= w
    BY <2>2, <2>5
  <2>7. QED
    BY <1>1, <2>1, <2>5, <2>6 DEF g
<1>2. CASE s # <<>>
  BY <1>2, ChunksAre DEF Group
<1>3. QED
  BY <1>1, <1>2

EmptyRows(rows) == {j \in 1 .. Len(rows) : rows[j] = <<>>}

(* The rows and the kept positions up to x agree. *)
RowsUpTo(t, rows, x) ==
    LET flat == FlattenSeq(rows)
    IN  /\ Len(flat) = Rank(Kept(t), x)
        /\ \A p \in Kept(t) : p <= x => flat[Rank(Kept(t), p)] = t[p]

BlanksUpTo(t, rows, x) == Cardinality(EmptyRows(rows)) = Rank(Blanks(t), x)

LEMMA PositionsAre ==
    ASSUME NEW C, NEW t \in Seq(C)
    PROVE  /\ Len(t) \in Nat
           /\ Kept(t) \in SUBSET (1 .. Len(t)) /\ Kept(t) \in SUBSET Nat
           /\ Blanks(t) \in SUBSET (1 .. Len(t)) /\ Blanks(t) \in SUBSET Nat
<1>1. Len(t) \in Nat
  BY LenProperties
<1>2. Kept(t) \in SUBSET (1 .. Len(t)) /\ Blanks(t) \in SUBSET (1 .. Len(t))
  BY DEF Kept, Blanks
<1>3. QED
  BY <1>1, <1>2, SubsetOfPositions

LEMMA EmptyRowsFinite ==
    ASSUME NEW B, NEW s \in Seq(B)
    PROVE  IsFiniteSet(EmptyRows(s)) /\ Cardinality(EmptyRows(s)) \in Nat
<1>1. Len(s) \in Nat /\ EmptyRows(s) \in SUBSET (1 .. Len(s))
  BY LenProperties DEF EmptyRows
<1>2. IsFiniteSet(EmptyRows(s))
  BY <1>1, SubsetOfPositions
<1>3. QED
  BY <1>2, FS_CardinalityType

(* Rows that are not empty add no empty row, and an empty one adds one. *)
LEMMA EmptyRowsGrow ==
    ASSUME NEW B, NEW s \in Seq(B), NEW g \in Seq(B)
    PROVE  /\ (\A j \in 1 .. Len(g) : g[j] # <<>>) =>
                Cardinality(EmptyRows(s \o g)) = Cardinality(EmptyRows(s))
           /\ Len(g) = 1 /\ g[1] = <<>> =>
                Cardinality(EmptyRows(s \o g)) = Cardinality(EmptyRows(s)) + 1
<1> DEFINE u == s \o g
           n == Len(s)
<1>1. /\ n \in Nat /\ Len(g) \in Nat /\ Len(u) = n + Len(g)
      /\ \A j \in 1 .. n + Len(g) : u[j] = IF j <= n THEN s[j] ELSE g[j - n]
  BY LenProperties, ConcatProperties
<1> HIDE DEF u
<1>2. \A j \in 1 .. n : j \in EmptyRows(u) <=> j \in EmptyRows(s)
  BY <1>1 DEF EmptyRows
<1>3. \A j \in EmptyRows(u) : j \in Nat /\ j >= 1 /\ j <= n + Len(g)
  BY <1>1 DEF EmptyRows
<1>4. \A j \in EmptyRows(s) : j \in 1 .. n
  BY DEF EmptyRows
<1>5. ASSUME \A j \in 1 .. Len(g) : g[j] # <<>>
      PROVE  Cardinality(EmptyRows(u)) = Cardinality(EmptyRows(s))
  <2>1. ASSUME NEW j \in EmptyRows(u) PROVE j \in 1 .. n
    <3> SUFFICES ASSUME j > n PROVE FALSE
      BY <1>1, <1>3
    <3>1. j \in n + 1 .. n + Len(g) /\ j \in 1 .. n + Len(g) /\ j - n \in 1 .. Len(g)
      BY <1>1, <1>3
    <3>2. u[j] = g[j - n] /\ u[j] = <<>>
      BY <1>1, <3>1 DEF EmptyRows
    <3>3. QED
      BY <1>5, <3>1, <3>2
  <2>2. EmptyRows(u) = EmptyRows(s)
    BY <1>2, <1>4, <2>1
  <2>3. QED
    BY <2>2
<1>6. ASSUME Len(g) = 1, g[1] = <<>>
      PROVE  Cardinality(EmptyRows(u)) = Cardinality(EmptyRows(s)) + 1
  <2>1. n + 1 \in EmptyRows(u)
    <3>1. n + 1 \in 1 .. n + Len(g) /\ ~(n + 1 <= n) /\ (n + 1) - n = 1
      BY <1>1, <1>6
    <3>2. u[n + 1] = <<>>
      BY <1>1, <1>6, <3>1
    <3>3. QED
      BY <1>1, <3>1, <3>2 DEF EmptyRows
  <2>2. EmptyRows(u) = EmptyRows(s) \cup {n + 1}
    <3>1. ASSUME NEW j \in EmptyRows(u), j # n + 1 PROVE j \in 1 .. n
      BY <1>1, <1>3, <1>6, <3>1
    <3>2. QED
      BY <1>2, <1>4, <2>1, <3>1
  <2>3. n + 1 \notin EmptyRows(s)
    BY <1>1, <1>4
  <2>4. QED
    BY <2>2, <2>3, EmptyRowsFinite, FS_AddElement
<1>7. QED
  BY <1>5, <1>6 DEF u

LEMMA RankMonotone ==
    ASSUME NEW S \in SUBSET Nat, NEW x \in S, NEW z \in Nat, x <= z
    PROVE  Rank(S, x) <= Rank(S, z) /\ Rank(S, x) \in Nat /\ Rank(S, x) >= 1
<1> DEFINE U == {y \in S : y <= x}
           V == {y \in S : y <= z}
<1>1. x \in Nat /\ U \in SUBSET V /\ x \in U
  <2>1. x \in Nat /\ \A y \in S : y \in Nat
    OBVIOUS
  <2>2. ASSUME NEW y \in U PROVE y \in V
    <3>1. y \in S /\ y \in Nat /\ y <= x
      BY <2>1
    <3>2. y <= z
      BY <2>1, <3>1
    <3>3. QED
      BY <3>1, <3>2
  <2>3. x \in U
    BY <2>1
  <2>4. QED
    BY <2>1, <2>2, <2>3
<1>2. IsFiniteSet(U) /\ IsFiniteSet(V) /\ Cardinality(U) \in Nat
  BY <1>1, RankType DEF Rank
<1> HIDE DEF U, V
<1>3. Cardinality(U) <= Cardinality(V) /\ Cardinality(U) # 0
  BY <1>1, <1>2, FS_Subset, FS_EmptySet
<1>4. QED
  BY <1>2, <1>3 DEF Rank, U, V

(* Line k continues what the rows of the lines before it hold. *)
LEMMA RowsStep ==
    ASSUME NEW C, NEW t \in Seq(C), NEW w \in Nat \ {0}, NEW k \in 1 .. Cardinality(Ends(t)),
           NEW rows \in Seq(Seq(C)),
           RowsUpTo(t, rows, Before(t, k)), BlanksUpTo(t, rows, Before(t, k))
    PROVE  LET e == Ascending(Ends(t))[k]
               line == SubSeq(t, LineStart(t, e), LineStop(t, e))
           IN  /\ line \in Seq(C)
               /\ RowsUpTo(t, rows \o Group(line, w), e)
               /\ BlanksUpTo(t, rows \o Group(line, w), e)
<1> DEFINE e == Ascending(Ends(t))[k]
           p == Before(t, k)
           l == LineStop(t, e)
           line == SubSeq(t, LineStart(t, e), l)
           g == Group(line, w)
           flat == FlattenSeq(rows)
           K == Kept(t)
           B == Blanks(t)
<1>1. /\ p \in Nat /\ LineStart(t, e) = p + 1 /\ l \in p .. e /\ e \in 1 .. Len(t) /\ p < e
      /\ p + 1 .. l \subseteq K
      /\ \A i \in l + 1 .. e : i \notin K
      /\ l = p => p + 1 \in B
      /\ l # p => p + 1 \notin B
      /\ \A i \in p + 2 .. e : i \notin B
  BY LineIs
<1>2. Len(t) \in Nat /\ K \in SUBSET Nat /\ B \in SUBSET Nat
  BY PositionsAre
<1>3. /\ flat \in Seq(C) /\ Len(flat) = Rank(K, p)
      /\ \A x \in K : x <= p => flat[Rank(K, x)] = t[x]
      /\ Cardinality(EmptyRows(rows)) = Rank(B, p)
  BY FlattenType DEF RowsUpTo, BlanksUpTo
<1> HIDE DEF p, e, l, K, B, flat
<1>4. /\ line \in Seq(C) /\ Len(line) = l - p /\ (line = <<>> <=> l = p)
      /\ \A i \in 1 .. l - p : line[i] = t[p + i]
  <2>1. line = SubSeq(t, p + 1, l)
    BY <1>1
  <2>2. p + 1 \in Int /\ l \in Int /\ \A i \in p + 1 .. l : t[i] \in C
    BY <1>1, <1>2, ElementOfSeq
  <2>3. /\ line \in Seq(C) /\ Len(line) = IF p + 1 <= l THEN l - (p + 1) + 1 ELSE 0
        /\ \A i \in 1 .. l - (p + 1) + 1 : line[i] = t[p + 1 + i - 1]
    BY <2>1, <2>2, SubSeqProperties
  <2> HIDE DEF line
  <2>4. Len(line) = l - p /\ l - (p + 1) + 1 = l - p
    BY <1>1, <2>3
  <2>5. \A i \in 1 .. l - p : line[i] = t[p + i]
    <3>1. \A i \in 1 .. l - p : p + 1 + i - 1 = p + i
      BY <1>1
    <3>2. QED
      BY <2>3, <2>4, <3>1
  <2>6. line = <<>> <=> Len(line) = 0
    BY <2>3, EmptySeq
  <2>7. QED
    BY <1>1, <2>3, <2>4, <2>5, <2>6
<1> HIDE DEF line
<1>5. /\ g \in Seq(Seq(C)) /\ FlattenSeq(g) = line
      /\ line = <<>> => g = <<<<>>>>
      /\ line # <<>> => \A j \in 1 .. Len(g) : g[j] # <<>>
  BY <1>4, GroupIs
<1> HIDE DEF g
<1>6. FlattenSeq(rows \o g) = flat \o line
  BY <1>5, FlattenConcat DEF flat
<1>7. /\ Len(flat \o line) = Len(flat) + Len(line)
      /\ \A i \in 1 .. Len(flat) + Len(line) :
           (flat \o line)[i] = IF i <= Len(flat) THEN flat[i] ELSE line[i - Len(flat)]
  <2>1. flat \in Seq(C) /\ line \in Seq(C)
    BY <1>3, <1>4
  <2>2. QED
    BY <2>1, ConcatProperties
<1>8. Rank(K, p) \in Nat /\ l \in Nat /\ e \in Nat /\ p <= l /\ l <= e /\ l - p \in Nat
  <2>1. e \in Nat /\ l \in Nat
    BY <1>1, <1>2
  <2>2. Rank(K, p) \in Nat
    BY <1>1, <1>2, RankType
  <2>3. QED
    BY <1>1, <2>1, <2>2
<1>9. Rank(K, l) = Rank(K, p) + (l - p)
  BY <1>1, <1>2, <1>8, RankCounts
<1>10. Rank(K, e) = Rank(K, l)
  BY <1>1, <1>2, <1>8, RankSkips
<1>11. Len(flat \o line) = Rank(K, e)
  BY <1>3, <1>4, <1>7, <1>9, <1>10
<1>12. ASSUME NEW x \in K, x <= e PROVE (flat \o line)[Rank(K, x)] = t[x]
  <2>1. x \in Nat
    BY <1>2
  <2>2. CASE x <= p
    <3>1. Rank(K, x) <= Rank(K, p) /\ Rank(K, x) \in Nat /\ Rank(K, x) >= 1
      BY <1>1, <1>2, <2>2, RankMonotone
    <3>2. Rank(K, x) \in 1 .. Len(flat) + Len(line) /\ Rank(K, x) <= Len(flat)
      BY <1>3, <1>4, <1>8, <3>1
    <3>3. QED
      BY <1>3, <1>7, <2>2, <3>2
  <2>3. CASE ~(x <= p)
    <3>1. x <= l /\ p <= x /\ x - p \in 1 .. l - p
      BY <1>1, <1>8, <1>12, <2>1, <2>3
    <3>2. p + 1 .. x \subseteq K
      BY <1>1, <1>8, <2>1, <3>1
    <3>3. Rank(K, x) = Rank(K, p) + (x - p)
      BY <1>1, <1>2, <2>1, <3>1, <3>2, RankCounts
    <3>4. /\ Rank(K, x) \in 1 .. Len(flat) + Len(line) /\ ~(Rank(K, x) <= Len(flat))
          /\ Rank(K, x) - Len(flat) = x - p
      BY <1>1, <1>3, <1>4, <1>8, <2>1, <3>1, <3>3, SMTT(30)
    <3>5. line[x - p] = t[p + (x - p)] /\ p + (x - p) = x
      BY <1>1, <1>4, <2>1, <3>1
    <3>6. QED
      BY <1>7, <3>4, <3>5
  <2>4. QED
    BY <2>2, <2>3
<1>13. RowsUpTo(t, rows \o g, e)
  BY <1>6, <1>11, <1>12 DEF RowsUpTo, K
<1>14. Rank(B, p) \in Nat
  BY <1>1, <1>2, RankType
<1>15. Cardinality(EmptyRows(rows \o g)) = Rank(B, e)
  <2>1. CASE l = p
    <3>1. g = <<<<>>>>
      BY <1>4, <1>5, <2>1
    <3>2. Len(g) = 1 /\ g[1] = <<>>
      BY <3>1
    <3>3. Cardinality(EmptyRows(rows \o g)) = Rank(B, p) + 1
      BY <1>3, <1>5, <3>2, EmptyRowsGrow
    <3>4. Rank(B, p + 1) = Rank(B, p) + 1
      <4>1. p + 1 .. p + 1 \subseteq B /\ p + 1 \in Nat /\ p <= p + 1 /\ (p + 1) - p = 1
        BY <1>1, <2>1
      <4>2. Rank(B, p + 1) = Rank(B, p) + ((p + 1) - p)
        BY <1>1, <1>2, <4>1, RankCounts
      <4>3. QED
        BY <4>1, <4>2
    <3>5. Rank(B, e) = Rank(B, p + 1)
      <4>1. p + 1 \in Nat /\ p + 1 <= e /\ \A i \in (p + 1) + 1 .. e : i \notin B
        BY <1>1, <1>8
      <4>2. QED
        BY <1>2, <1>8, <4>1, RankSkips
    <3>6. QED
      BY <3>3, <3>4, <3>5
  <2>2. CASE l # p
    <3>1. Cardinality(EmptyRows(rows \o g)) = Rank(B, p)
      BY <1>3, <1>4, <1>5, <2>2, EmptyRowsGrow
    <3>2. \A i \in p + 1 .. e : i \notin B
      BY <1>1, <1>8, <2>2
    <3>3. Rank(B, e) = Rank(B, p)
      BY <1>1, <1>2, <1>8, <3>2, RankSkips
    <3>4. QED
      BY <3>1, <3>3
  <2>3. QED
    BY <2>1, <2>2
<1>16. BlanksUpTo(t, rows \o g, e)
  BY <1>15 DEF BlanksUpTo, B
<1>17. QED
  BY <1>4, <1>13, <1>16 DEF g, line, l, e

Narrow(rows, w) == \A j \in 1 .. Len(rows) : Len(rows[j]) <= w

LEMMA NarrowConcat ==
    ASSUME NEW B, NEW r \in Seq(B), NEW s \in Seq(B), NEW w \in Nat, Narrow(r, w), Narrow(s, w)
    PROVE  Narrow(r \o s, w)
<1>1. /\ Len(r) \in Nat /\ Len(s) \in Nat /\ Len(r \o s) = Len(r) + Len(s)
      /\ \A j \in 1 .. Len(r) + Len(s) :
           (r \o s)[j] = IF j <= Len(r) THEN r[j] ELSE s[j - Len(r)]
  BY LenProperties, ConcatProperties
<1>2. ASSUME NEW j \in 1 .. Len(r) + Len(s) PROVE Len((r \o s)[j]) <= w
  <2>1. CASE j <= Len(r)
    <3>1. j \in 1 .. Len(r) /\ (r \o s)[j] = r[j]
      BY <1>1, <2>1
    <3>2. QED
      BY <3>1 DEF Narrow
  <2>2. CASE ~(j <= Len(r))
    <3>1. j - Len(r) \in 1 .. Len(s) /\ (r \o s)[j] = s[j - Len(r)]
      BY <1>1, <2>2
    <3>2. QED
      BY <3>1 DEF Narrow
  <2>3. QED
    BY <2>1, <2>2
<1>3. QED
  BY <1>1, <1>2 DEF Narrow

(* The rows line by line: after k lines they hold what the text does up to *)
(* the end of line k.                                                      *)
Lines(t, w) ==
    [k \in 1 .. Cardinality(Ends(t)) |->
        LET e == Ascending(Ends(t))[k]
        IN  Group(SubSeq(t, LineStart(t, e), LineStop(t, e)), w)]

LEMMA LinesAre ==
    ASSUME NEW C, NEW t \in Seq(C), t # <<>>, NEW w \in Nat \ {0}
    PROVE  LET rows == FlattenSeq(Lines(t, w))
           IN  /\ rows \in Seq(Seq(C)) /\ rows # <<>> /\ Narrow(rows, w)
               /\ RowsUpTo(t, rows, Len(t)) /\ BlanksUpTo(t, rows, Len(t))
<1> DEFINE a == Ascending(Ends(t))
           m == Cardinality(Ends(t))
           line(k) == SubSeq(t, LineStart(t, a[k]), LineStop(t, a[k]))
           G == Lines(t, w)
<1>1. m \in Nat /\ m >= 1 /\ Len(t) \in Nat /\ a[m] = Len(t)
  BY EndsAre
<1>2. G = [k \in 1 .. m |-> Group(line(k), w)]
  BY DEF Lines
<1>3. ASSUME NEW k \in 1 .. m PROVE line(k) \in Seq(C)
  <2> DEFINE e == a[k]
             p == Before(t, k)
             l == LineStop(t, e)
  <2>1. p \in Nat /\ LineStart(t, e) = p + 1 /\ l \in p .. e /\ e \in 1 .. Len(t)
    BY LineIs
  <2> HIDE DEF e, p, l
  <2>2. p + 1 \in Int /\ l \in Int /\ \A i \in p + 1 .. l : t[i] \in C
    BY <1>1, <2>1, ElementOfSeq
  <2>3. SubSeq(t, p + 1, l) \in Seq(C)
    BY <2>2, SubSeqProperties
  <2>4. QED
    BY <2>1, <2>3 DEF e, l
<1>4. G \in Seq(Seq(Seq(C))) /\ Len(G) = m /\ G # <<>>
  <2>1. \A k \in 1 .. m : Group(line(k), w) \in Seq(Seq(C))
    BY <1>3, GroupIs
  <2> HIDE DEF G, line, m
  <2>2. G \in Seq(Seq(Seq(C))) /\ Len(G) = m
    BY <1>1, <1>2, <2>1
  <2>3. QED
    BY <1>1, <2>2, EmptySeq
<1> DEFINE End(k) == IF k = 0 THEN 0 ELSE a[k]
           P(k) == /\ RowsUpTo(t, Flat(G, k), End(k)) /\ BlanksUpTo(t, Flat(G, k), End(k))
                   /\ Narrow(Flat(G, k), w) /\ (k > 0 => Flat(G, k) # <<>>)
           S == {k \in Nat : k <= m => P(k)}
<1>5. \A k \in Nat : k <= m => Flat(G, k) \in Seq(Seq(C))
  BY <1>4, FlatType
<1>6. \A k \in 1 .. m : G[k] = Group(line(k), w)
  BY <1>2
<1> HIDE DEF G
<1>7. 0 \in S
  <2>1. Flat(G, 0) = <<>>
    BY <1>4, FlatIs
  <2>2. Kept(t) \in SUBSET (1 .. Len(t)) /\ Blanks(t) \in SUBSET (1 .. Len(t))
    BY PositionsAre
  <2>3. \A z \in 1 .. Len(t) : z \in Nat /\ z >= 1 /\ ~(z <= 0)
    BY <1>1
  <2>4. {y \in Kept(t) : y <= 0} = {} /\ {y \in Blanks(t) : y <= 0} = {}
    BY <2>2, <2>3
  <2>5. Rank(Kept(t), 0) = 0 /\ Rank(Blanks(t), 0) = 0
    BY <2>4, FS_EmptySet DEF Rank
  <2>6. Len(<<>>) = 0 /\ 1 .. 0 = {}
    BY EmptySeq
  <2>7. RowsUpTo(t, <<>>, 0)
    BY <2>2, <2>3, <2>5, <2>6, FlattenEmpty DEF RowsUpTo
  <2>8. EmptyRows(<<>>) = {}
    BY <2>6 DEF EmptyRows
  <2>9. BlanksUpTo(t, <<>>, 0)
    BY <2>5, <2>8, FS_EmptySet DEF BlanksUpTo
  <2>10. Narrow(<<>>, w)
    BY <2>6 DEF Narrow
  <2>11. QED
    BY <2>1, <2>7, <2>9, <2>10
<1>8. ASSUME NEW k \in Nat, k \in S PROVE k + 1 \in S
  <2> SUFFICES ASSUME k + 1 <= m PROVE P(k + 1)
    OBVIOUS
  <2> DEFINE g == Group(line(k + 1), w)
             r == Flat(G, k)
             e == a[k + 1]
  <2>1. P(k) /\ k < m /\ k + 1 \in 1 .. m /\ (k + 1) - 1 = k /\ k + 1 # 0
    BY <1>1, <1>8
  <2>2. Flat(G, k + 1) = r \o g
    BY <1>4, <1>6, <2>1, FlatIs
  <2>3. End(k) = Before(t, k + 1)
    BY <2>1 DEF Before
  <2>4. r \in Seq(Seq(C))
    BY <1>1, <1>5, <2>1
  <2>5. RowsUpTo(t, r, Before(t, k + 1)) /\ BlanksUpTo(t, r, Before(t, k + 1)) /\ Narrow(r, w)
    BY <2>1, <2>3
  <2>6. RowsUpTo(t, r \o g, e) /\ BlanksUpTo(t, r \o g, e)
    <3> HIDE DEF r
    <3>1. QED
      BY <2>1, <2>4, <2>5, RowsStep
  <2>7. g \in Seq(Seq(C)) /\ g # <<>> /\ Narrow(g, w)
    BY <1>3, <2>1, GroupIs DEF Narrow
  <2> HIDE DEF r, g
  <2>8. Narrow(r \o g, w)
    BY <2>4, <2>5, <2>7, NarrowConcat
  <2>9. r \o g # <<>>
    <3>1. Len(r \o g) = Len(r) + Len(g) /\ Len(r) \in Nat /\ Len(g) \in Nat /\ Len(g) # 0
      BY <2>4, <2>7, LenProperties, ConcatProperties, EmptySeq
    <3>2. Len(r \o g) # 0 /\ Len(<<>>) = 0
      BY <3>1, EmptySeq
    <3>3. QED
      BY <3>2
  <2>10. End(k + 1) = e
    BY <2>1
  <2>11. QED
    BY <2>2, <2>6, <2>8, <2>9, <2>10
<1> HIDE DEF S
<1>9. \A k \in Nat : k \in S
  BY <1>7, <1>8, Induction
<1>10. P(m)
  BY <1>1, <1>9 DEF S
<1>11. End(m) = Len(t) /\ Flat(G, m) = FlattenSeq(G) /\ m > 0
  BY <1>1, <1>4, FlatIs
<1>12. Flat(G, m) \in Seq(Seq(C))
  BY <1>1, <1>5
<1>13. QED
  BY <1>10, <1>11, <1>12 DEF G

(* What the rows of a text are, whole: RowsAreTheFile, for the text.       *)
HoldsText(rows, t) ==
    LET flat == FlattenSeq(rows)
        kept == Ascending(Kept(t))
    IN  /\ Len(flat) = Len(kept)
        /\ \A k \in 1 .. Len(kept) : kept[k] \in Kept(t) /\ flat[k] = t[kept[k]]

LEMMA WrappedIs ==
    ASSUME NEW C, NEW t \in Seq(C), NEW columns \in Nat
    PROVE  LET rows == WrappedTextLines(t, columns)
           IN  /\ rows \in Seq(Seq(C)) /\ rows # <<>>
               /\ Narrow(rows, AtLeastOne(columns))
               /\ HoldsText(rows, t)
               /\ t # <<>> => Cardinality(EmptyRows(rows)) = Cardinality(Blanks(t))
<1> DEFINE w == AtLeastOne(columns)
           wrapped == FlattenSeq(Lines(t, w))
           rows == WrappedTextLines(t, columns)
           kept == Ascending(Kept(t))
<1>1. w \in Nat \ {0}
  BY DEF AtLeastOne
<1>2. rows = IF wrapped = <<>> THEN <<<<>>>> ELSE wrapped
  <2> DEFINE ls == TextLines(t)
             a == Ascending(Ends(t))
             m == Cardinality(Ends(t))
  <2>1. ls = [k \in 1 .. m |-> SubSeq(t, LineStart(t, a[k]), LineStop(t, a[k]))]
    BY TextLinesIs
  <2>2. m \in Nat
    BY EndsAre
  <2>3. Len(ls) = m
    <3> HIDE DEF m
    <3>1. QED
      BY <2>1, <2>2
  <2>4. [k \in 1 .. Len(ls) |-> IF ls[k] = <<>> THEN <<<<>>>> ELSE Chunks(ls[k], w)]
          = Lines(t, w)
    <3>1. \A k \in 1 .. m : ls[k] = SubSeq(t, LineStart(t, a[k]), LineStop(t, a[k]))
      BY <2>1
    <3>2. \A k \in 1 .. m :
            (IF ls[k] = <<>> THEN <<<<>>>> ELSE Chunks(ls[k], w))
              = Group(SubSeq(t, LineStart(t, a[k]), LineStop(t, a[k])), w)
      BY <3>1 DEF Group
    <3> HIDE DEF ls
    <3>3. QED
      BY <2>3, <3>2 DEF Lines
  <2>5. QED
    BY <2>4 DEF WrappedTextLines
<1>3. /\ Kept(t) \in SUBSET Nat /\ IsFiniteSet(Kept(t))
      /\ Cardinality(Kept(t)) = Rank(Kept(t), Len(t))
      /\ Cardinality(Blanks(t)) = Rank(Blanks(t), Len(t))
      /\ \A x \in Kept(t) : x <= Len(t)
  <2>1. /\ Len(t) \in Nat /\ Kept(t) \in SUBSET (1 .. Len(t))
        /\ Blanks(t) \in SUBSET (1 .. Len(t))
    BY PositionsAre
  <2>2. QED
    BY <2>1, SubsetOfPositions
<1>4. /\ Len(kept) = Cardinality(Kept(t))
      /\ \A k \in 1 .. Len(kept) : kept[k] \in Kept(t) /\ Rank(Kept(t), kept[k]) = k
  BY <1>3, AscendingIs
<1> HIDE DEF w, kept, wrapped
<1>5. CASE t # <<>>
  <2>1. /\ wrapped \in Seq(Seq(C)) /\ wrapped # <<>> /\ Narrow(wrapped, w)
        /\ RowsUpTo(t, wrapped, Len(t)) /\ BlanksUpTo(t, wrapped, Len(t))
    BY <1>1, <1>5, LinesAre DEF wrapped
  <2>2. rows = wrapped
    BY <1>2, <2>1
  <2>3. Len(FlattenSeq(wrapped)) = Len(kept)
    BY <1>3, <1>4, <2>1 DEF RowsUpTo
  <2>4. \A k \in 1 .. Len(kept) : FlattenSeq(wrapped)[k] = t[kept[k]]
    BY <1>3, <1>4, <2>1 DEF RowsUpTo
  <2>5. HoldsText(wrapped, t)
    BY <1>4, <2>3, <2>4 DEF HoldsText, kept
  <2>6. Cardinality(EmptyRows(wrapped)) = Cardinality(Blanks(t))
    BY <1>3, <2>1 DEF BlanksUpTo
  <2>7. QED
    BY <2>1, <2>2, <2>5, <2>6 DEF w
<1>6. CASE t = <<>>
  <2>1. Len(t) = 0 /\ 1 .. 0 = {}
    BY <1>6, EmptySeq
  <2>2. Ends(t) = {} /\ Kept(t) = {}
    BY <2>1 DEF Ends, Kept
  <2>3. Cardinality(Ends(t)) = 0 /\ Cardinality(Kept(t)) = 0
    BY <2>2, FS_EmptySet
  <2>4. Lines(t, w) = <<>>
    <3>1. Lines(t, w) = [k \in {} |->
        LET e == Ascending(Ends(t))[k]
        IN  Group(SubSeq(t, LineStart(t, e), LineStop(t, e)), w)]
      BY <2>1, <2>3 DEF Lines
    <3>2. QED
      BY <3>1
  <2>5. rows = <<<<>>>>
    BY <1>2, <2>4, FlattenEmpty DEF wrapped
  <2>6. <<>> \in Seq(C) /\ Len(<<>>) = 0
    BY EmptySeq
  <2>7. rows \in Seq(Seq(C)) /\ rows # <<>> /\ Len(rows) = 1 /\ rows[1] = <<>>
    BY <2>5, <2>6
  <2>8. FlattenSeq(rows) = <<>>
    BY <2>5, <2>6, FlattenOne
  <2> HIDE DEF rows
  <2>9. HoldsText(rows, t)
    BY <1>4, <2>1, <2>3, <2>6, <2>8 DEF HoldsText, kept
  <2>10. Narrow(rows, w)
    BY <1>1, <2>6, <2>7 DEF Narrow
  <2>11. QED
    BY <1>6, <2>7, <2>9, <2>10 DEF rows, w
<1>7. QED
  BY <1>5, <1>6

(* Every character of a row is one of the rows one after another. *)
LEMMA FlattenHolds ==
    ASSUME NEW A, NEW s \in Seq(Seq(A))
    PROVE  \A j \in 1 .. Len(s) : \A i \in 1 .. Len(s[j]) :
               \E x \in 1 .. Len(FlattenSeq(s)) : FlattenSeq(s)[x] = s[j][i]
<1> DEFINE Holds(j, k) == \A i \in 1 .. Len(s[j]) :
               \E x \in 1 .. Len(Flat(s, k)) : Flat(s, k)[x] = s[j][i]
           P(k) == \A j \in 1 .. k : Holds(j, k)
           S == {k \in Nat : k <= Len(s) => P(k)}
<1>1. Len(s) \in Nat
  BY LenProperties
<1>2. 0 \in S
  OBVIOUS
<1>3. ASSUME NEW k \in Nat, k \in S PROVE k + 1 \in S
  <2> SUFFICES ASSUME k + 1 <= Len(s) PROVE P(k + 1)
    OBVIOUS
  <2> DEFINE f == Flat(s, k)
             y == s[k + 1]
  <2>1. k < Len(s) /\ k <= Len(s) /\ P(k)
    BY <1>1, <1>3
  <2>2. f \in Seq(A) /\ y \in Seq(A) /\ Flat(s, k + 1) = f \o y
    BY <1>1, <2>1, FlatIs, FlatType
  <2>3. /\ Len(f) \in Nat /\ Len(y) \in Nat /\ Len(f \o y) = Len(f) + Len(y)
        /\ \A i \in 1 .. Len(f) + Len(y) :
             (f \o y)[i] = IF i <= Len(f) THEN f[i] ELSE y[i - Len(f)]
    BY <2>2, LenProperties, ConcatProperties
  <2>4. ASSUME NEW j \in 1 .. k PROVE Holds(j, k + 1)
    <3> SUFFICES ASSUME NEW i \in 1 .. Len(s[j])
                 PROVE  \E x \in 1 .. Len(f \o y) : (f \o y)[x] = s[j][i]
      BY <2>2
    <3>1. PICK x \in 1 .. Len(f) : f[x] = s[j][i]
      BY <2>1, <2>4
    <3>2. x \in 1 .. Len(f \o y) /\ (f \o y)[x] = f[x]
      BY <2>3, <3>1
    <3>3. QED
      BY <3>1, <3>2
  <2>5. Holds(k + 1, k + 1)
    <3> SUFFICES ASSUME NEW i \in 1 .. Len(y)
                 PROVE  \E x \in 1 .. Len(f \o y) : (f \o y)[x] = y[i]
      BY <2>2
    <3>1. /\ Len(f) + i \in 1 .. Len(f) + Len(y) /\ ~(Len(f) + i <= Len(f))
          /\ (Len(f) + i) - Len(f) = i
      BY <2>3
    <3>2. (f \o y)[Len(f) + i] = y[i]
      BY <2>3, <3>1
    <3>3. QED
      BY <2>3, <3>1, <3>2
  <2>6. \A j \in 1 .. k + 1 : j \in 1 .. k \/ j = k + 1
    OBVIOUS
  <2>7. QED
    BY <2>4, <2>5, <2>6
<1> HIDE DEF S
<1>4. \A k \in Nat : k \in S
  BY <1>2, <1>3, Induction
<1>5. Flat(s, Len(s)) = FlattenSeq(s)
  BY FlatIs
<1>6. Len(s) \in S
  BY <1>1, <1>4
<1> HIDE DEF P
<1>7. P(Len(s))
  BY <1>1, <1>6 DEF S
<1>8. QED
  BY <1>5, <1>7 DEF P

-----------------------------------------------------------------------------
(* sanitize_text and safe_label.                                           *)

(* The characters a decoded or sanitized text is made of. *)
Characters == Bytes \cup {"?", "esc-symbol", "truncated", "U+" \o "9b", "U+" \o "a9"}

LEMMA LossyType ==
    ASSUME NEW b \in Seq(Bytes)
    PROVE  FromUtf8Lossy(b) \in Seq(Characters)
<1> DEFINE Continues(i) == i <= Len(b) /\ b[i] \in {"9b", "a9"}
           Starts(i) == i >= 1 /\ b[i] = "c2"
           Character(i) ==
               CASE Starts(i) -> IF Continues(i + 1) THEN <<"U+" \o b[i + 1]>> ELSE <<"?">>
                 [] Continues(i) -> IF Starts(i - 1) THEN <<>> ELSE <<"?">>
                 [] OTHER -> <<b[i]>>
           s == [i \in 1 .. Len(b) |-> Character(i)]
<1>1. Len(b) \in Nat
  BY LenProperties
<1>2. \A c \in Characters : <<c>> \in Seq(Characters)
  OBVIOUS
<1>3. ASSUME NEW i \in 1 .. Len(b) PROVE Character(i) \in Seq(Characters)
  <2>1. b[i] \in Characters
    BY ElementOfSeq DEF Characters
  <2>2. <<b[i]>> \in Seq(Characters)
    BY <1>2, <2>1
  <2>3. <<>> \in Seq(Characters) /\ <<"?">> \in Seq(Characters)
    BY <1>2, EmptySeq DEF Characters
  <2>4. Continues(i + 1) => <<"U+" \o b[i + 1]>> \in Seq(Characters)
    <3> SUFFICES ASSUME Continues(i + 1) PROVE <<"U+" \o b[i + 1]>> \in Seq(Characters)
      OBVIOUS
    <3>1. b[i + 1] = "9b" \/ b[i + 1] = "a9"
      OBVIOUS
    <3>2. "U+" \o b[i + 1] = "U+" \o "9b" \/ "U+" \o b[i + 1] = "U+" \o "a9"
      BY <3>1
    <3>3. "U+" \o "9b" \in Characters /\ "U+" \o "a9" \in Characters
      BY DEF Characters
    <3>4. "U+" \o b[i + 1] \in Characters
      BY <3>2, <3>3
    <3>5. QED
      BY <1>2, <3>4
  <2> HIDE DEF Continues, Starts
  <2>5. QED
    BY <2>2, <2>3, <2>4
<1> HIDE DEF Character
<1>4. s \in Seq(Seq(Characters))
  BY <1>1, <1>3
<1>5. FlattenSeq(s) \in Seq(Characters)
  BY <1>4, FlattenType
<1>6. QED
  BY <1>5 DEF FromUtf8Lossy, Character

LEMMA BoundedType ==
    ASSUME NEW input \in Seq(Bytes), NEW max \in Nat
    PROVE  Bounded(input, max) \in Seq(Bytes)
<1>1. Len(input) \in Nat
  BY LenProperties
<1>2. Lesser(Len(input), max) \in 0 .. Len(input)
  BY <1>1 DEF Lesser
<1>3. QED
  BY <1>2, Prefix DEF Bounded

(* What sanitizing makes of a character. *)
Sanitized(c, d) ==
    /\ d = "nl" <=> c = "nl"
    /\ d = "cr" <=> c = "cr"
    /\ d = c \/ (c \in Controls /\ d \in {"?", "esc-symbol"})
    /\ d \in Controls => d \in {"nl", "cr", "tab"}

LEMMA ReplacedIs ==
    ASSUME NEW c \in Characters
    PROVE  Replaced(c) \in Characters /\ Sanitized(c, Replaced(c))
<1>1. CASE c \in {"nl", "cr", "tab"}
  BY <1>1 DEF Replaced, Sanitized, Controls
<1>2. CASE c = "esc"
  BY <1>2 DEF Replaced, Sanitized, Controls, Characters
<1>3. CASE c \in Controls \ {"nl", "cr", "tab", "esc"}
  BY <1>3 DEF Replaced, Sanitized, Controls, Characters
<1>4. CASE c \notin Controls
  BY <1>4 DEF Replaced, Sanitized, Controls
<1>5. QED
  BY <1>1, <1>2, <1>3, <1>4

(* The text a file stands for, before anything is replaced. *)
Decoded(input, max) ==
    FromUtf8Lossy(Bounded(input, max)) \o (IF Len(input) > max THEN Notice ELSE <<>>)

LEMMA SanitizedIs ==
    ASSUME NEW input \in Seq(Bytes), NEW max \in Nat
    PROVE  LET s == Decoded(input, max)
               t == SanitizeText(input, max)
           IN  /\ s \in Seq(Characters) /\ t \in Seq(Characters) /\ Len(s) = Len(t)
               /\ \A i \in 1 .. Len(t) : Sanitized(s[i], t[i])
<1> DEFINE f == FromUtf8Lossy(Bounded(input, max))
           r == [i \in 1 .. Len(f) |-> Replaced(f[i])]
           e == IF Len(input) > max THEN Notice ELSE <<>>
<1>1. f \in Seq(Characters)
  BY BoundedType, LossyType
<1>2. e \in Seq(Characters) /\ \A i \in 1 .. Len(e) : Sanitized(e[i], e[i])
  <2>1. Notice \in Seq(Characters) /\ Len(Notice) = 3
    BY DEF Notice, Characters, Bytes
  <2>2. \A i \in 1 .. 3 : Sanitized(Notice[i], Notice[i])
    BY DEF Notice, Sanitized, Controls
  <2>3. <<>> \in Seq(Characters) /\ Len(<<>>) = 0
    BY EmptySeq
  <2>4. CASE Len(input) > max
    <3>1. e = Notice
      BY <2>4
    <3> HIDE DEF e
    <3>2. QED
      BY <2>1, <2>2, <3>1
  <2>5. CASE ~(Len(input) > max)
    <3>1. e = <<>>
      BY <2>5
    <3> HIDE DEF e
    <3>2. 1 .. 0 = {}
      OBVIOUS
    <3>3. QED
      BY <2>3, <3>1, <3>2
  <2>6. QED
    BY <2>4, <2>5
<1> HIDE DEF f, e
<1>3. Len(f) \in Nat /\ \A i \in 1 .. Len(f) : f[i] \in Characters
  BY <1>1, LenProperties, ElementOfSeq
<1>4. \A i \in 1 .. Len(f) : Replaced(f[i]) \in Characters /\ Sanitized(f[i], Replaced(f[i]))
  BY <1>3, ReplacedIs
<1>5. r \in Seq(Characters) /\ Len(r) = Len(f) /\ \A i \in 1 .. Len(f) : r[i] = Replaced(f[i])
  BY <1>3, <1>4
<1>6. Decoded(input, max) = f \o e /\ SanitizeText(input, max) = r \o e
  BY DEF Decoded, SanitizeText, f, e
<1> HIDE DEF r
<1>7. /\ Len(e) \in Nat
      /\ f \o e \in Seq(Characters) /\ Len(f \o e) = Len(f) + Len(e)
      /\ \A i \in 1 .. Len(f) + Len(e) : (f \o e)[i] = IF i <= Len(f) THEN f[i] ELSE e[i - Len(f)]
      /\ r \o e \in Seq(Characters) /\ Len(r \o e) = Len(f) + Len(e)
      /\ \A i \in 1 .. Len(f) + Len(e) : (r \o e)[i] = IF i <= Len(f) THEN r[i] ELSE e[i - Len(f)]
  <2>1. Len(e) \in Nat
    BY <1>2, LenProperties
  <2>2. /\ f \o e \in Seq(Characters) /\ Len(f \o e) = Len(f) + Len(e)
        /\ \A i \in 1 .. Len(f) + Len(e) :
             (f \o e)[i] = IF i <= Len(f) THEN f[i] ELSE e[i - Len(f)]
    BY <1>1, <1>2, ConcatProperties
  <2>3. /\ r \o e \in Seq(Characters) /\ Len(r \o e) = Len(r) + Len(e)
        /\ \A i \in 1 .. Len(r) + Len(e) :
             (r \o e)[i] = IF i <= Len(r) THEN r[i] ELSE e[i - Len(r)]
    BY <1>2, <1>5, ConcatProperties
  <2>4. QED
    BY <1>5, <2>1, <2>2, <2>3
<1>8. ASSUME NEW i \in 1 .. Len(f) + Len(e) PROVE Sanitized((f \o e)[i], (r \o e)[i])
  <2>1. CASE i <= Len(f)
    <3>1. i \in 1 .. Len(f) /\ (f \o e)[i] = f[i] /\ (r \o e)[i] = Replaced(f[i])
      BY <1>3, <1>5, <1>7, <2>1
    <3>2. QED
      BY <1>4, <3>1
  <2>2. CASE ~(i <= Len(f))
    <3>1. /\ i - Len(f) \in 1 .. Len(e)
          /\ (f \o e)[i] = e[i - Len(f)] /\ (r \o e)[i] = e[i - Len(f)]
      BY <1>3, <1>7, <2>2
    <3>2. QED
      BY <1>2, <3>1
  <2>3. QED
    BY <2>1, <2>2
<1>9. QED
  BY <1>6, <1>7, <1>8

LEMMA LabelType ==
    ASSUME NEW n \in Seq(Bytes), NEW columns \in Nat
    PROVE  SafeLabel(n, columns) \in Seq(Characters \ Controls)
<1> DEFINE source == FromUtf8Lossy(n)
           safe == [i \in 1 .. Len(source) |-> IF source[i] \in Controls THEN "?" ELSE source[i]]
<1>1. source \in Seq(Characters)
  BY LossyType
<1> HIDE DEF source
<1>2. Len(source) \in Nat /\ \A i \in 1 .. Len(source) : source[i] \in Characters
  BY <1>1, LenProperties, ElementOfSeq
<1>3. "?" \in Characters \ Controls
  BY DEF Characters, Controls
<1>4. safe \in Seq(Characters \ Controls) /\ Len(safe) = Len(source)
  BY <1>2, <1>3
<1> HIDE DEF safe
<1>5. Lesser(columns, Len(safe)) \in 0 .. Len(safe)
  BY <1>2, <1>4 DEF Lesser
<1>6. SubSeq(safe, 1, Lesser(columns, Len(safe))) \in Seq(Characters \ Controls)
  BY <1>4, <1>5, Prefix
<1>7. QED
  BY <1>6 DEF SafeLabel, source, safe

-----------------------------------------------------------------------------
(* Pages.                                                                  *)

LEMMA PageRowsAre ==
    ASSUME NEW v \in Viewport
    PROVE  /\ ContentRows(v) \in Nat /\ ContentRows(v) >= 1 /\ PageRows(v) = ContentRows(v)
           /\ v.rows >= 3 => ContentRows(v) = v.rows - 2
  BY DEF Viewport, ContentRows, PageRows, AtLeastOne, Saturating

(* A page adds lines of the text, and on three rows or more every line it  *)
(* draws is seen: the footer covers none.                                  *)
LEMMA SeenAre ==
    ASSUME NEW ls, Len(ls) \in Nat, NEW v \in Viewport, NEW o \in Nat
    PROVE  /\ Seen(ls, o, v) \subseteq 1 .. Len(ls)
           /\ v.rows >= 3 => Seen(ls, o, v) = o + 1 .. Lesser(o + ContentRows(v), Len(ls))
<1> DEFINE h == ContentRows(v)
           z == Lesser(o + h, Len(ls))
<1>1. h \in Nat /\ v.rows \in Nat /\ (v.rows >= 3 => h = v.rows - 2)
  BY PageRowsAre DEF Viewport
<1> HIDE DEF h
<1>2. z \in Nat /\ z <= o + h /\ z <= Len(ls)
  BY <1>1 DEF Lesser
<1> HIDE DEF z
<1>3. Seen(ls, o, v) = {l \in o + 1 .. z : l - o + 1 < v.rows}
  BY DEF Seen, Drawn, z, h
<1>4. \A l \in o + 1 .. z : l \in 1 .. Len(ls) /\ (v.rows >= 3 => l - o + 1 < v.rows)
  BY <1>1, <1>2
<1>5. QED
  BY <1>3, <1>4 DEF z, h

LEMMA ReadsOn ==
    ASSUME NEW ls, Len(ls) \in Nat, NEW v \in Viewport, NEW o \in Nat, NEW seen,
           v.rows >= 3, 1 .. o \subseteq seen
    PROVE  1 .. Lesser(o + ContentRows(v), Len(ls)) \subseteq seen \cup Seen(ls, o, v)
<1> DEFINE z == Lesser(o + ContentRows(v), Len(ls))
<1>1. Seen(ls, o, v) = o + 1 .. z
  BY SeenAre
<1> HIDE DEF z
<1>2. \A l \in 1 .. z : l \in 1 .. o \/ l \in o + 1 .. z
  OBVIOUS
<1>3. QED
  BY <1>1, <1>2 DEF z

(* What show_text lays out for a file.                                     *)
LEMMA LayoutIs ==
    ASSUME NEW f \in Seq(Bytes), NEW columns \in Nat
    PROVE  LET t == SanitizeText(f, MaxText)
               rows == WrappedTextLines(t, columns)
           IN  /\ t \in Seq(Characters) /\ rows \in Seq(Seq(Characters))
               /\ Len(rows) \in Nat /\ Len(rows) >= 1
               /\ Narrow(rows, AtLeastOne(columns))
               /\ HoldsText(rows, t)
               /\ t # <<>> => Cardinality(EmptyRows(rows)) = Cardinality(Blanks(t))
<1> DEFINE t == SanitizeText(f, MaxText)
           rows == WrappedTextLines(t, columns)
<1>1. t \in Seq(Characters)
  BY SanitizedIs, ViewAssumption
<1> HIDE DEF t
<1>2. /\ rows \in Seq(Seq(Characters)) /\ rows # <<>>
      /\ Narrow(rows, AtLeastOne(columns))
      /\ HoldsText(rows, t)
      /\ t # <<>> => Cardinality(EmptyRows(rows)) = Cardinality(Blanks(t))
  BY <1>1, WrappedIs
<1> HIDE DEF rows
<1>3. Len(rows) \in Nat /\ Len(rows) # 0
  BY <1>2, LenProperties, EmptySeq
<1>4. Len(rows) >= 1
  BY <1>3
<1>5. QED
  BY <1>1, <1>2, <1>3, <1>4 DEF t, rows

-----------------------------------------------------------------------------
(* Text.                                                                   *)

(* The text and its rows are what the file and the columns make them, and  *)
(* every page lies inside them; PagingSkipsNothing is inductive with it.   *)
TextInv ==
    /\ pc \in {"load", "layout", "page", "image", "drawn", "failed"}
    /\ file \in Seq(Bytes) /\ name \in Seq(Bytes) /\ view \in Viewport
    /\ pc \in {"layout", "page"} => text = SanitizeText(file, MaxText)
    /\ pc = "page" =>
           /\ lines = WrappedTextLines(text, view.columns)
           /\ offset \in 0 .. Len(lines) - 1
    /\ pc # "page" => lines = <<>> /\ visible = {}
    /\ visible \subseteq 1 .. Len(lines)
    /\ jumped \in BOOLEAN
    /\ label \in Seq(Characters \ Controls)
    /\ PagingSkipsNothing

LEMMA PageIs ==
    ASSUME TextInv, pc = "page"
    PROVE  /\ text \in Seq(Characters) /\ lines \in Seq(Seq(Characters))
           /\ Len(lines) \in Nat /\ Len(lines) >= 1
           /\ Narrow(lines, AtLeastOne(view.columns))
           /\ HoldsText(lines, text)
           /\ text # <<>> => Cardinality(EmptyRows(lines)) = Cardinality(Blanks(text))
<1>1. file \in Seq(Bytes) /\ view.columns \in Nat
  BY DEF TextInv, Viewport
<1>2. text = SanitizeText(file, MaxText) /\ lines = WrappedTextLines(text, view.columns)
  BY DEF TextInv
<1>3. QED
  BY <1>1, <1>2, LayoutIs

(* A turn of the page keeps the page inside the text and, when what is     *)
(* before it has been seen, shows every line down to its last.             *)
LEMMA TurnKeeps ==
    ASSUME TextInv, pc = "page", NEW o \in 0 .. Len(lines) - 1, Page(lines, o),
           UNCHANGED <<file, name, view, pc, text, lines, label>>, jumped' \in BOOLEAN,
           (view.rows >= 3 /\ ~jumped') => 1 .. o \subseteq visible
    PROVE  TextInv'
<1>1. Len(lines) \in Nat /\ Len(lines) >= 1 /\ o \in Nat /\ view \in Viewport
  BY PageIs DEF TextInv
<1>2. offset' = o /\ visible' = visible \cup Seen(lines, o, view)
  BY DEF Page
<1>3. visible' \subseteq 1 .. Len(lines)
  BY <1>1, <1>2, SeenAre DEF TextInv
<1>4. PagingSkipsNothing'
  <2> SUFFICES ASSUME view.rows >= 3, ~jumped'
               PROVE  1 .. Lesser(o + ContentRows(view), Len(lines)) \subseteq visible'
    BY <1>2 DEF PagingSkipsNothing
  <2>1. QED
    BY <1>1, <1>2, ReadsOn
<1>5. QED
  BY <1>2, <1>3, <1>4 DEF TextInv

LEMMA TextInvInit == Init => TextInv
<1> SUFFICES ASSUME Init PROVE TextInv
  OBVIOUS
<1>1. <<>> \in Seq(Bytes) /\ <<>> \in Seq(Characters \ Controls)
  BY EmptySeq
<1>2. file \in Seq(Bytes) /\ name \in Seq(Bytes) /\ view \in Viewport
  BY <1>1, ViewAssumption DEF Init, Viewport
<1>3. pc = "load" /\ lines = <<>> /\ visible = {} /\ jumped = FALSE /\ label = <<>>
  BY DEF Init
<1>4. QED
  BY <1>1, <1>2, <1>3 DEF TextInv, PagingSkipsNothing

LEMMA TextInvStep == TextInv /\ [Next]_vars => TextInv'
<1> SUFFICES ASSUME TextInv, [Next]_vars PROVE TextInv'
  OBVIOUS
<1>1. CASE Prepare
  <2>1. /\ UNCHANGED <<file, name, view, lines, visible, jumped, label>>
        /\ pc = "load" /\ pc' \in {"image", "layout", "failed"}
        /\ pc' = "layout" => text' = SanitizeText(file, MaxText)
    BY <1>1 DEF Prepare
  <2>2. QED
    BY <2>1 DEF TextInv, PagingSkipsNothing
<1>2. CASE Layout
  <2>1. /\ pc = "layout" /\ pc' = "page" /\ UNCHANGED <<file, name, view, text, jumped>>
        /\ lines' = WrappedTextLines(text, view.columns)
        /\ offset' = 0 /\ visible' = visible \cup Seen(lines', 0, view)
        /\ label' = SafeLabel(name, Saturating(view.columns, 2))
    BY <1>2 DEF Layout, Page
  <2>2. /\ file \in Seq(Bytes) /\ name \in Seq(Bytes) /\ view \in Viewport
        /\ view.columns \in Nat /\ text = SanitizeText(file, MaxText) /\ visible = {}
    BY <2>1 DEF TextInv, Viewport
  <2>3. Len(lines') \in Nat /\ Len(lines') >= 1
    BY <2>1, <2>2, LayoutIs
  <2>4. label' \in Seq(Characters \ Controls)
    <3>1. Saturating(view.columns, 2) \in Nat
      BY <2>2 DEF Saturating
    <3>2. QED
      BY <2>1, <2>2, <3>1, LabelType
  <2>5. visible' \subseteq 1 .. Len(lines')
    BY <2>1, <2>2, <2>3, SeenAre
  <2>6. PagingSkipsNothing'
    <3> SUFFICES ASSUME view.rows >= 3
                 PROVE  1 .. Lesser(0 + ContentRows(view), Len(lines')) \subseteq visible'
      BY <2>1 DEF PagingSkipsNothing
    <3>1. 1 .. 0 \subseteq visible
      OBVIOUS
    <3>2. QED
      BY <2>1, <2>2, <2>3, <3>1, ReadsOn
  <2>7. offset' \in 0 .. Len(lines') - 1
    BY <2>1, <2>3
  <2>8. QED
    BY <2>1, <2>2, <2>4, <2>5, <2>6, <2>7 DEF TextInv
<1>3. CASE Turn
  <2> DEFINE n == Len(lines)
             h == PageRows(view)
             z == Lesser(offset + h, n)
  <2>1. pc = "page" /\ UNCHANGED <<file, name, view, pc, text, lines, label>>
    BY <1>3 DEF Turn
  <2>2. /\ n \in Nat /\ n >= 1 /\ offset \in Nat /\ offset <= n - 1
        /\ h \in Nat /\ h >= 1 /\ h = ContentRows(view)
    <3>1. n \in Nat /\ n >= 1 /\ offset \in 0 .. n - 1 /\ view \in Viewport
      BY <2>1, PageIs DEF TextInv
    <3>2. QED
      BY <3>1, PageRowsAre
  <2>3. (view.rows >= 3 /\ ~jumped) => 1 .. z \subseteq visible
    BY <2>1, <2>2 DEF TextInv, PagingSkipsNothing
  <2> HIDE DEF n, h
  <2>4. z \in Nat /\ z >= offset
    BY <2>2 DEF Lesser
  <2>5. CASE Page(lines, Lesser(offset + h, Saturating(n, 1))) /\ UNCHANGED jumped
    <3> DEFINE o == Lesser(offset + h, Saturating(n, 1))
    <3>1. o \in 0 .. n - 1 /\ o <= z
      BY <2>2 DEF Lesser, Saturating
    <3> HIDE DEF o, z
    <3>2. (view.rows >= 3 /\ ~jumped) => 1 .. o \subseteq visible
      <4>1. \A l \in 1 .. o : l \in 1 .. z
        BY <2>2, <2>4, <3>1
      <4>2. QED
        BY <2>3, <4>1
    <3>3. jumped' = jumped /\ jumped \in BOOLEAN /\ Page(lines, o)
      BY <2>5 DEF TextInv, o
    <3>4. QED
      BY <2>1, <3>1, <3>2, <3>3, TurnKeeps DEF n
  <2>6. CASE (\E o \in {Saturating(offset, h), 0} : Page(lines, o)) /\ UNCHANGED jumped
    <3>1. PICK o \in {Saturating(offset, h), 0} : Page(lines, o)
      BY <2>6
    <3>2. o \in 0 .. n - 1 /\ o <= z
      BY <2>2, <2>4, <3>1 DEF Saturating
    <3> HIDE DEF z
    <3>3. (view.rows >= 3 /\ ~jumped) => 1 .. o \subseteq visible
      <4>1. \A l \in 1 .. o : l \in 1 .. z
        BY <2>2, <2>4, <3>2
      <4>2. QED
        BY <2>3, <4>1
    <3>4. jumped' = jumped /\ jumped \in BOOLEAN
      BY <2>6 DEF TextInv
    <3>5. QED
      BY <2>1, <3>1, <3>2, <3>3, <3>4, TurnKeeps DEF n
  <2>7. CASE Page(lines, Saturating(n, h)) /\ jumped' = TRUE
    <3>1. Saturating(n, h) \in 0 .. n - 1
      BY <2>2 DEF Saturating
    <3>2. QED
      BY <2>1, <2>7, <3>1, TurnKeeps DEF n
  <2>8. QED
    BY <1>3, <2>5, <2>6, <2>7 DEF Turn, n, h
<1>4. CASE Place
  <2>1. pc = "image" /\ UNCHANGED <<file, name, view, text, lines, offset, jumped, visible>>
    BY <1>4 DEF Place
  <2>2. pc' \in {"drawn", "failed"}
    BY <1>4 DEF Place
  <2>3. label' \in Seq(Characters \ Controls)
    <3>1. name \in Seq(Bytes) /\ view.columns \in Nat /\ label \in Seq(Characters \ Controls)
      BY DEF TextInv, Viewport
    <3>2. Saturating(view.columns, 20) \in Nat
      BY <3>1 DEF Saturating
    <3>3. SafeLabel(name, Saturating(view.columns, 20)) \in Seq(Characters \ Controls)
      BY <3>1, <3>2, LabelType
    <3>4. QED
      BY <1>4, <3>1, <3>3 DEF Place
  <2>4. QED
    BY <2>1, <2>2, <2>3 DEF TextInv, PagingSkipsNothing
<1>5. CASE UNCHANGED vars
  BY <1>5 DEF vars, TextInv, PagingSkipsNothing
<1>6. QED
  BY <1>1, <1>2, <1>3, <1>4, <1>5 DEF Next

LEMMA TextInvariant == Spec => []TextInv
<1>1. QED
  BY TextInvInit, TextInvStep, PTL DEF Spec

(* A page always begins at a line of the text and the lines seen are lines *)
(* of it, whatever keys show_text was given.                               *)
THEOREM ViewTypeCorrect == Spec => []TypeOK
<1>1. TextInv => TypeOK
  <2> SUFFICES ASSUME TextInv PROVE TypeOK
    OBVIOUS
  <2>1. pc = "page" => offset < Len(lines)
    BY PageIs DEF TextInv
  <2>2. QED
    BY <2>1 DEF TextInv, TypeOK
<1>2. QED
  BY <1>1, TextInvariant, PTL

(* Reading on page by page shows every line of every file on every screen  *)
(* of three rows or more: PageRows never outruns ContentRows.              *)
THEOREM PagingCorrect == Spec => []PagingSkipsNothing
<1>1. TextInv => PagingSkipsNothing
  BY DEF TextInv
<1>2. QED
  BY <1>1, TextInvariant, PTL

(* A character that is kept is no control but a tab or a carriage return.  *)
LEMMA KeptIsSafe ==
    ASSUME NEW f \in Seq(Bytes), NEW x \in Kept(SanitizeText(f, MaxText))
    PROVE  SanitizeText(f, MaxText)[x] \notin Controls \ {"tab", "cr"}
<1> DEFINE t == SanitizeText(f, MaxText)
           s == Decoded(f, MaxText)
<1>1. \A i \in 1 .. Len(t) : Sanitized(s[i], t[i])
  BY SanitizedIs, ViewAssumption
<1> HIDE DEF t, s
<1>2. x \in 1 .. Len(t) /\ t[x] # "nl"
  BY DEF Kept, EndsLine, t
<1>3. t[x] \in Controls => t[x] \in {"nl", "cr", "tab"}
  BY <1>1, <1>2 DEF Sanitized
<1>4. QED
  BY <1>2, <1>3 DEF t

(* Of all control characters only tabs and carriage returns inside a line  *)
(* reach the terminal: sanitize_text leaves these and the ends of lines,   *)
(* and wrapped_text_lines drops the ends; safe_label replaces every one.   *)
THEOREM ShownIsSafe == Spec => []OnlyTabAndReturnPass
<1>1. TextInv => OnlyTabAndReturnPass
  <2> SUFFICES ASSUME TextInv PROVE OnlyTabAndReturnPass
    OBVIOUS
  <2>1. Range(label) \cap Controls = {}
    <3>1. label \in Seq(Characters \ Controls) /\ DOMAIN label = 1 .. Len(label)
      BY LenProperties DEF TextInv
    <3>2. \A i \in DOMAIN label : label[i] \notin Controls
      BY <3>1, ElementOfSeq
    <3>3. QED
      BY <3>2 DEF Range
  <2>2. \A l \in Range(lines) : Range(l) \cap (Controls \ {"tab", "cr"}) = {}
    <3>1. CASE pc # "page"
      <4>1. lines = <<>> /\ DOMAIN <<>> = {}
        BY <3>1 DEF TextInv
      <4>2. QED
        BY <4>1 DEF Range
    <3>2. CASE pc = "page"
      <4>1. /\ lines \in Seq(Seq(Characters)) /\ HoldsText(lines, text)
            /\ file \in Seq(Bytes) /\ text = SanitizeText(file, MaxText)
        BY <3>2, PageIs DEF TextInv
      <4>2. ASSUME NEW j \in DOMAIN lines, NEW i \in DOMAIN lines[j]
            PROVE  lines[j][i] \notin Controls \ {"tab", "cr"}
        <5> DEFINE flat == FlattenSeq(lines)
                   kept == Ascending(Kept(text))
        <5>1. /\ DOMAIN lines = 1 .. Len(lines) /\ lines[j] \in Seq(Characters)
              /\ DOMAIN lines[j] = 1 .. Len(lines[j])
          BY <4>1, LenProperties, ElementOfSeq
        <5>2. \E x \in 1 .. Len(flat) : flat[x] = lines[j][i]
          <6>1. j \in 1 .. Len(lines) /\ i \in 1 .. Len(lines[j])
            BY <5>1
          <6>2. \A b \in 1 .. Len(lines) : \A c \in 1 .. Len(lines[b]) :
                    \E x \in 1 .. Len(flat) : flat[x] = lines[b][c]
            BY <4>1, FlattenHolds
          <6> HIDE DEF flat
          <6>3. QED
            BY <6>1, <6>2
        <5>3. PICK x \in 1 .. Len(flat) : flat[x] = lines[j][i]
          BY <5>2
        <5>4. kept[x] \in Kept(text) /\ flat[x] = text[kept[x]]
          BY <4>1 DEF HoldsText
        <5>5. text[kept[x]] \notin Controls \ {"tab", "cr"}
          BY <4>1, <5>4, KeptIsSafe
        <5>6. QED
          BY <5>3, <5>4, <5>5
      <4>3. QED
        BY <4>2 DEF Range
    <3>3. QED
      BY <3>1, <3>2
  <2>3. QED
    BY <2>1, <2>2 DEF OnlyTabAndReturnPass
<1>2. QED
  BY <1>1, TextInvariant, PTL

(* The line ends of what was decoded are those of the text.                *)
LEMMA SameLines ==
    ASSUME NEW f \in Seq(Bytes), NEW s, NEW t,
           s = Decoded(f, MaxText), t = SanitizeText(f, MaxText)
    PROVE  /\ Len(s) = Len(t) /\ Len(t) \in Nat
           /\ \A i \in 1 .. Len(t) : Sanitized(s[i], t[i])
           /\ \A i \in 1 .. Len(t) : EndsLine(s, i) <=> EndsLine(t, i)
           /\ Kept(s) = Kept(t) /\ Blanks(s) = Blanks(t)
<1>1. /\ Len(s) = Len(t) /\ t \in Seq(Characters)
      /\ \A i \in 1 .. Len(t) : Sanitized(s[i], t[i])
  BY SanitizedIs, ViewAssumption
<1>2. Len(t) \in Nat
  BY <1>1, LenProperties
<1>3. \A i \in 1 .. Len(t) : (s[i] = "nl" <=> t[i] = "nl") /\ (s[i] = "cr" <=> t[i] = "cr")
  BY <1>1 DEF Sanitized
<1>4. ASSUME NEW i \in 1 .. Len(t) PROVE EndsLine(s, i) <=> EndsLine(t, i)
  <2>1. i + 1 <= Len(t) => i + 1 \in 1 .. Len(t)
    BY <1>2
  <2>2. QED
    BY <1>1, <1>3, <2>1 DEF EndsLine
<1>5. Kept(s) = Kept(t)
  BY <1>1, <1>4 DEF Kept
<1>6. Blanks(s) = Blanks(t)
  <2>1. \A i \in 1 .. Len(t) : i > 1 => i - 1 \in 1 .. Len(t)
    BY <1>2
  <2>2. \A i \in 1 .. Len(t) : i \in Blanks(s) <=> i \in Blanks(t)
    BY <1>1, <1>3, <1>4, <2>1 DEF Blanks
  <2>3. \A i \in Blanks(s) \cup Blanks(t) : i \in 1 .. Len(t)
    BY <1>1 DEF Blanks
  <2>4. QED
    BY <2>2, <2>3
<1>7. QED
  BY <1>1, <1>2, <1>4, <1>5, <1>6

(* The rows of a page are the file: no row is too wide, no character of a  *)
(* line is lost, repeated or moved, and a blank line is a blank row, for   *)
(* every file, every limit and every number of columns (sanitize_text and  *)
(* wrapped_text_lines).                                                    *)
THEOREM RowsCorrect == Spec => []RowsAreTheFile
<1>1. TextInv => RowsAreTheFile
  <2> SUFFICES ASSUME TextInv, pc = "page" PROVE RowsAreTheFile
    BY DEF RowsAreTheFile
  <2> DEFINE s == Decoded(file, MaxText)
             flat == FlattenSeq(lines)
             kept == Ascending(Kept(text))
  <2>1. /\ lines \in Seq(Seq(Characters)) /\ Len(lines) \in Nat
        /\ Narrow(lines, AtLeastOne(view.columns))
        /\ HoldsText(lines, text)
        /\ text # <<>> => Cardinality(EmptyRows(lines)) = Cardinality(Blanks(text))
    BY PageIs
  <2>2. file \in Seq(Bytes) /\ text = SanitizeText(file, MaxText)
    BY DEF TextInv
  <2>3. /\ Len(s) = Len(text) /\ Len(text) \in Nat
        /\ \A i \in 1 .. Len(text) : Sanitized(s[i], text[i])
        /\ Kept(s) = Kept(text) /\ Blanks(s) = Blanks(text)
    BY <2>2, SameLines
  <2>4. DOMAIN lines = 1 .. Len(lines)
    BY <2>1, LenProperties
  <2>5. \A k \in DOMAIN lines : Len(lines[k]) <= AtLeastOne(view.columns)
    BY <2>1, <2>4 DEF Narrow
  <2>6. Len(flat) = Len(kept)
    BY <2>1 DEF HoldsText
  <2>7. ASSUME NEW k \in 1 .. Len(kept)
        PROVE  flat[k] = s[kept[k]]
               \/ (s[kept[k]] \in Controls /\ flat[k] \in {"?", "esc-symbol"})
    <3>1. kept[k] \in Kept(text) /\ flat[k] = text[kept[k]]
      BY <2>1 DEF HoldsText
    <3>2. kept[k] \in 1 .. Len(text)
      BY <3>1 DEF Kept
    <3>3. Sanitized(s[kept[k]], text[kept[k]])
      BY <2>3, <3>2
    <3>4. QED
      BY <3>1, <3>3 DEF Sanitized
  <2>8. Len(s) > 0 => Cardinality({k \in DOMAIN lines : lines[k] = <<>>}) = Cardinality(Blanks(s))
    <3>1. Len(s) > 0 => text # <<>>
      BY <2>3, EmptySeq
    <3>2. {k \in DOMAIN lines : lines[k] = <<>>} = EmptyRows(lines)
      BY <2>4 DEF EmptyRows
    <3>3. QED
      BY <2>1, <2>3, <3>1, <3>2
  <2> DEFINE n == Len(s)
             Is(i, c) == i <= n /\ s[i] = c
             ends(i) == Is(i, "nl") \/ (Is(i, "cr") /\ Is(i + 1, "nl"))
             order == Ascending({i \in 1 .. n : ~ends(i)})
             blank(i) == ends(i) /\ (i > 1 => Is(i - 1, "nl"))
  <2>9. {i \in 1 .. n : ~ends(i)} = Kept(s) /\ {i \in 1 .. n : blank(i)} = Blanks(s)
    <3> HIDE DEF s
    <3>1. \A i : ends(i) <=> EndsLine(s, i)
      BY DEF EndsLine
    <3>2. \A i : blank(i) <=> EndsLine(s, i) /\ (i > 1 => i - 1 <= Len(s) /\ s[i - 1] = "nl")
      BY <3>1
    <3> HIDE DEF ends, blank
    <3>3. QED
      BY <3>1, <3>2 DEF Kept, Blanks
  <2>10. order = kept
    BY <2>3, <2>9
  <2>11. /\ Len(flat) = Len(order)
         /\ \A k \in 1 .. Len(order) :
                flat[k] = s[order[k]]
                \/ (s[order[k]] \in Controls /\ flat[k] \in {"?", "esc-symbol"})
    <3> HIDE DEF s, flat, kept, order
    <3>1. QED
      BY <2>6, <2>7, <2>10
  <2>12. n > 0 => Cardinality({k \in DOMAIN lines : lines[k] = <<>>})
                    = Cardinality({i \in 1 .. n : blank(i)})
    BY <2>8, <2>9
  <2>13. QED
    BY <2>5, <2>11, <2>12, Zenon DEF RowsAreTheFile, Decoded
<1>2. QED
  BY <1>1, TextInvariant, PTL

-----------------------------------------------------------------------------
(* The bytes that carry an image to the terminal, and the queries before   *)
(* it: the frame of WireExchange.                                          *)

(* What tmux passes on from position i, when f is what it passes on later. *)
PassedFrom(bytes, f, i) ==
    IF i >= Len(bytes) \/ (bytes[i] = "ESC" /\ bytes[i + 1] # "ESC") THEN <<>>
    ELSE <<bytes[i]>> \o f[IF bytes[i] = "ESC" THEN i + 2 ELSE i + 1]

IsUnframing(f, bytes, a) == f = [i \in a .. Len(bytes) + 1 |-> PassedFrom(bytes, f, i)]

LEMMA UnframingExists ==
    ASSUME NEW bytes, Len(bytes) \in Nat
    PROVE  \A k \in Nat : k <= Len(bytes) + 1 => \E f : IsUnframing(f, bytes, Len(bytes) + 1 - k)
<1> DEFINE m == Len(bytes)
           S == {k \in Nat : k <= m + 1 => \E f : IsUnframing(f, bytes, m + 1 - k)}
<1> HIDE DEF m
<1>1. m \in Nat /\ m = Len(bytes)
  BY DEF m
<1>2. 0 \in S
  <2> DEFINE f == [i \in m + 1 .. m + 1 |-> <<>>]
  <2>1. ASSUME NEW i \in m + 1 .. m + 1 PROVE PassedFrom(bytes, f, i) = <<>>
    <3>1. i >= Len(bytes) /\ ~(i < Len(bytes))
      BY <1>1
    <3> HIDE DEF f
    <3>2. QED
      BY <3>1 DEF PassedFrom
  <2>2. f = [i \in m + 1 .. m + 1 |-> PassedFrom(bytes, f, i)]
    <3> DEFINE g == f
    <3>1. \A i \in m + 1 .. m + 1 : PassedFrom(bytes, g, i) = <<>>
      BY <2>1
    <3>2. f = [i \in m + 1 .. m + 1 |-> <<>>]
      OBVIOUS
    <3> HIDE DEF g
    <3>3. [i \in m + 1 .. m + 1 |-> PassedFrom(bytes, g, i)] = [i \in m + 1 .. m + 1 |-> <<>>]
      BY <3>1
    <3>4. QED
      BY <3>2, <3>3 DEF g
  <2>3. m + 1 - 0 = m + 1
    BY <1>1
  <2> HIDE DEF f
  <2>4. IsUnframing(f, bytes, m + 1 - 0)
    BY <1>1, <2>2, <2>3 DEF IsUnframing
  <2>5. QED
    BY <2>4
<1>3. ASSUME NEW k \in Nat, k \in S PROVE k + 1 \in S
  <2> SUFFICES ASSUME k + 1 <= m + 1 PROVE \E f : IsUnframing(f, bytes, m + 1 - (k + 1))
    OBVIOUS
  <2> DEFINE a == m + 1 - k
  <2>1. PICK f : IsUnframing(f, bytes, a)
    BY <1>1, <1>3
  <2>2. a \in Nat /\ a >= 1 /\ a <= m + 1 /\ m + 1 - (k + 1) = a - 1
    BY <1>1
  <2> HIDE DEF a
  <2>3. f = [i \in a .. m + 1 |-> PassedFrom(bytes, f, i)]
    BY <1>1, <2>1 DEF IsUnframing
  <2> DEFINE g == [i \in a - 1 .. m + 1 |-> IF i >= a THEN f[i] ELSE PassedFrom(bytes, f, i)]
  <2>4. \A i \in a .. m + 1 : g[i] = f[i]
    BY <2>2
  <2>5. \A i \in a - 1 .. m + 1 : g[i] = PassedFrom(bytes, f, i)
    <3>1. \A i \in a .. m + 1 : f[i] = PassedFrom(bytes, f, i)
      BY <2>3
    <3>2. \A i \in a - 1 .. m + 1 : i >= a => i \in a .. m + 1
      BY <1>1, <2>2
    <3>3. QED
      BY <3>1, <3>2
  <2>6. g = [i \in a - 1 .. m + 1 |-> g[i]]
    OBVIOUS
  <2> HIDE DEF g
  <2>7. ASSUME NEW i \in a - 1 .. m + 1 PROVE PassedFrom(bytes, f, i) = PassedFrom(bytes, g, i)
    <3>1. i >= m \/ (i < m /\ i + 1 \in a .. m + 1 /\ i + 2 \in a .. m + 1)
      BY <1>1, <2>2
    <3>2. i >= m => ~(i < m)
      BY <1>1, <2>2
    <3>3. CASE i >= m
      BY <1>1, <3>2, <3>3 DEF PassedFrom
    <3>4. CASE i < m /\ i + 1 \in a .. m + 1 /\ i + 2 \in a .. m + 1
      <4>1. f[i + 1] = g[i + 1] /\ f[i + 2] = g[i + 2]
        BY <2>4, <3>4
      <4>2. QED
        BY <4>1 DEF PassedFrom
    <3>5. QED
      BY <3>1, <3>3, <3>4
  <2>8. IsUnframing(g, bytes, a - 1)
    BY <1>1, <2>5, <2>6, <2>7 DEF IsUnframing
  <2>9. QED
    BY <2>2, <2>8
<1> HIDE DEF S
<1>4. \A k \in Nat : k \in S
  BY <1>2, <1>3, Induction
<1>5. QED
  BY <1>4 DEF S, m

LEMMA UnframeIs ==
    ASSUME NEW bytes, Len(bytes) \in Nat, Len(bytes) >= 3
    PROVE  \E f : IsUnframing(f, bytes, 4) /\ Unframe(bytes) = f[4]
<1>1. \E f : IsUnframing(f, bytes, 4)
  <2>1. Len(bytes) - 3 \in Nat /\ Len(bytes) - 3 <= Len(bytes) + 1
        /\ Len(bytes) + 1 - (Len(bytes) - 3) = 4
    OBVIOUS
  <2>2. QED
    BY <2>1, UnframingExists
<1> DEFINE f == CHOOSE f : IsUnframing(f, bytes, 4)
<1>2. IsUnframing(f, bytes, 4)
  BY <1>1
<1>3. Unframe(bytes) = f[4]
  BY DEF Unframe, IsUnframing, PassedFrom
<1> HIDE DEF f
<1>4. QED
  BY <1>2, <1>3

(* A sequence of sequences begins, flattened, with its flattened beginning. *)
LEMMA FlatPrefix ==
    ASSUME NEW A, NEW s \in Seq(Seq(A)), NEW k \in Nat, k <= Len(s)
    PROVE  /\ Len(Flat(s, k)) \in Nat /\ Len(Flat(s, k)) <= Len(FlattenSeq(s))
           /\ \A x \in 1 .. Len(Flat(s, k)) : FlattenSeq(s)[x] = Flat(s, k)[x]
<1> DEFINE p == SubSeq(s, 1, k)
           q == SubSeq(s, k + 1, Len(s))
<1>1. Len(s) \in Nat
  BY LenProperties
<1>2. p \in Seq(Seq(A)) /\ q \in Seq(Seq(A))
  <2>1. \A i \in 1 .. Len(s) : s[i] \in Seq(A)
    BY ElementOfSeq
  <2>2. 1 \in Int /\ k \in Int /\ k + 1 \in Int /\ Len(s) \in Int
        /\ (\A i \in 1 .. k : i \in 1 .. Len(s)) /\ (\A i \in k + 1 .. Len(s) : i \in 1 .. Len(s))
    BY <1>1
  <2>3. p \in Seq(Seq(A))
    BY <2>1, <2>2, SubSeqProperties
  <2>4. q \in Seq(Seq(A))
    BY <2>1, <2>2, SubSeqProperties
  <2>5. QED
    BY <2>3, <2>4
<1>3. p \o q = s
  <2>1. 1 \in 1 .. Len(s) + 1 /\ k \in 1 - 1 .. Len(s) /\ Len(s) \in k .. Len(s)
    BY <1>1
  <2>2. p \o q = SubSeq(s, 1, Len(s))
    BY <2>1, ConcatAdjacentSubSeq
  <2>3. QED
    BY <2>2, SubSeqFull
<1> HIDE DEF p, q
<1> DEFINE f == FlattenSeq(p)
           g == FlattenSeq(q)
<1>4. FlattenSeq(s) = f \o g
  BY <1>2, <1>3, FlattenConcat
<1>5. f \in Seq(A) /\ g \in Seq(A)
  BY <1>2, FlattenType
<1> HIDE DEF f, g
<1>6. /\ Len(f) \in Nat /\ Len(g) \in Nat /\ Len(f \o g) = Len(f) + Len(g)
      /\ \A x \in 1 .. Len(f) + Len(g) : (f \o g)[x] = IF x <= Len(f) THEN f[x] ELSE g[x - Len(f)]
  BY <1>5, LenProperties, ConcatProperties
<1>7. \A x \in 1 .. Len(f) : (f \o g)[x] = f[x]
  BY <1>6
<1>8. f = Flat(s, k)
  BY DEF f, p, Flat
<1>9. QED
  BY <1>4, <1>6, <1>7, <1>8

(* The tokens of the frame. *)
Framing == {"ESC", "P", "tmux;", "\\"}

(* How wrap_passthrough writes a byte. *)
Doubled(x) == IF x = "ESC" THEN <<"ESC", "ESC">> ELSE <<x>>
Doublings(p) == [i \in 1 .. Len(p) |-> Doubled(p[i])]

LEMMA WrapIs ==
    ASSUME NEW C, NEW p \in Seq(C), Framing \subseteq C
    PROVE  LET b == Wrap(p)
               E == Doublings(p)
               h == FlattenSeq(E)
           IN  /\ E \in Seq(Seq(C)) /\ Len(E) = Len(p) /\ Len(p) \in Nat
               /\ h \in Seq(C) /\ Len(h) \in Nat /\ Len(b) = Len(h) + 5
               /\ \A x \in 1 .. Len(h) : b[3 + x] = h[x]
               /\ b[Len(h) + 4] = "ESC" /\ b[Len(h) + 5] = "\\"
<1> DEFINE E == Doublings(p)
           h == FlattenSeq(E)
           head == <<"ESC", "P", "tmux;">>
           end == <<"ESC", "\\">>
<1>1. Len(p) \in Nat /\ DOMAIN p = 1 .. Len(p) /\ \A i \in 1 .. Len(p) : p[i] \in C
  BY LenProperties, ElementOfSeq
<1>2. E \in Seq(Seq(C)) /\ Len(E) = Len(p)
  <2>1. ASSUME NEW x \in C PROVE Doubled(x) \in Seq(C)
    <3>1. <<x>> \in Seq(C) /\ <<x, x>> \in Seq(C)
      OBVIOUS
    <3>2. QED
      BY <3>1 DEF Doubled
  <2>2. \A i \in 1 .. Len(p) : Doubled(p[i]) \in Seq(C)
    BY <1>1, <2>1
  <2>3. QED
    BY <1>1, <2>2 DEF Doublings
<1>3. h \in Seq(C) /\ Len(h) \in Nat
  BY <1>2, FlattenType, LenProperties
<1>4. Wrap(p) = (head \o h) \o end
  <2>1. [i \in DOMAIN p |-> IF p[i] = "ESC" THEN <<"ESC", "ESC">> ELSE <<p[i]>>] = E
    BY <1>1 DEF Doublings, Doubled
  <2>2. FlattenSeq(E) = h
    OBVIOUS
  <2> HIDE DEF E
  <2>3. QED
    BY <2>1, <2>2 DEF Wrap, ST
<1> HIDE DEF h, E
<1>5. /\ head \in Seq(C) /\ Len(head) = 3
      /\ end \in Seq(C) /\ Len(end) = 2 /\ end[1] = "ESC" /\ end[2] = "\\"
  <2>1. "ESC" \in C /\ "P" \in C /\ "tmux;" \in C /\ "\\" \in C
    BY DEF Framing
  <2>2. \A x, y, z \in C : <<x, y, z>> \in Seq(C) /\ <<x, y>> \in Seq(C)
    OBVIOUS
  <2>3. head \in Seq(C) /\ end \in Seq(C)
    BY <2>1, <2>2
  <2>4. Len(head) = 3 /\ Len(end) = 2 /\ end[1] = "ESC" /\ end[2] = "\\"
    OBVIOUS
  <2>5. QED
    BY <2>3, <2>4
<1> HIDE DEF head, end
<1>6. /\ head \o h \in Seq(C) /\ Len(head \o h) = 3 + Len(h)
      /\ \A x \in 1 .. 3 + Len(h) : (head \o h)[x] = IF x <= 3 THEN head[x] ELSE h[x - 3]
  <2>1. head \in Seq(C) /\ h \in Seq(C)
    BY <1>3, <1>5
  <2>2. /\ head \o h \in Seq(C) /\ Len(head \o h) = Len(head) + Len(h)
        /\ \A x \in 1 .. Len(head) + Len(h) :
             (head \o h)[x] = IF x <= Len(head) THEN head[x] ELSE h[x - Len(head)]
    BY <2>1, ConcatProperties
  <2>3. QED
    BY <1>5, <2>2
<1> DEFINE u == head \o h
           m == 3 + Len(h)
<1>7. /\ Len(u \o end) = m + 2
      /\ \A x \in 1 .. m + 2 : (u \o end)[x] = IF x <= m THEN u[x] ELSE end[x - m]
  <2>1. u \in Seq(C) /\ end \in Seq(C)
    BY <1>5, <1>6
  <2> HIDE DEF u
  <2>2. /\ Len(u \o end) = Len(u) + Len(end)
        /\ \A x \in 1 .. Len(u) + Len(end) :
             (u \o end)[x] = IF x <= Len(u) THEN u[x] ELSE end[x - Len(u)]
    BY <2>1, ConcatProperties
  <2>3. QED
    BY <1>5, <1>6, <2>2 DEF u
<1>8. \A x \in 1 .. Len(h) : (u \o end)[3 + x] = h[x]
  <2>1. \A x \in 1 .. Len(h) : 3 + x \in 1 .. m + 2 /\ 3 + x <= m /\ 3 + x \in 1 .. m
                               /\ ~(3 + x <= 3) /\ (3 + x) - 3 = x
    BY <1>3
  <2>2. QED
    BY <1>6, <1>7, <2>1
<1>9. (u \o end)[Len(h) + 4] = "ESC" /\ (u \o end)[Len(h) + 5] = "\\"
  <2>1. /\ Len(h) + 4 \in 1 .. m + 2 /\ ~(Len(h) + 4 <= m) /\ (Len(h) + 4) - m = 1
        /\ Len(h) + 5 \in 1 .. m + 2 /\ ~(Len(h) + 5 <= m) /\ (Len(h) + 5) - m = 2
    BY <1>3
  <2>2. QED
    BY <1>5, <1>7, <2>1
<1>10. m + 2 = Len(h) + 5
  BY <1>3
<1>11. QED
  BY <1>1, <1>2, <1>3, <1>4, <1>7, <1>8, <1>9, <1>10 DEF h, E

(* tmux passes on exactly what was wrapped, whatever it is. *)
LEMMA FrameIsUndone ==
    ASSUME NEW C, NEW p \in Seq(C), Framing \subseteq C
    PROVE  Unframe(Wrap(p)) = p
<1> DEFINE b == Wrap(p)
           E == Doublings(p)
           h == FlattenSeq(E)
           n == Len(p)
<1>1. /\ E \in Seq(Seq(C)) /\ Len(E) = n /\ n \in Nat
      /\ h \in Seq(C) /\ Len(h) \in Nat /\ Len(b) = Len(h) + 5
      /\ \A x \in 1 .. Len(h) : b[3 + x] = h[x]
      /\ b[Len(h) + 4] = "ESC" /\ b[Len(h) + 5] = "\\"
  BY WrapIs
<1>2. \A i \in 1 .. n : E[i] = Doubled(p[i])
  BY DEF Doublings
<1> HIDE DEF b, E, h
<1>3. \A k \in Nat : k < n => Flat(E, k + 1) = Flat(E, k) \o E[k + 1] /\ Flat(E, k) \in Seq(C)
  <2>1. E \in Seq(Seq(C)) /\ Len(E) = n
    BY <1>1
  <2>2. \A k \in Nat : k < n => Flat(E, k + 1) = Flat(E, k) \o E[k + 1]
    BY <2>1, FlatIs
  <2>3. \A k \in Nat : k < n => Flat(E, k) \in Seq(C)
    BY <1>1, <2>1, FlatType
  <2>4. QED
    BY <2>2, <2>3
<1>4. PICK f : IsUnframing(f, b, 4) /\ Unframe(b) = f[4]
  <2>1. Len(b) \in Nat /\ Len(b) >= 3
    BY <1>1
  <2>2. QED
    BY <2>1, UnframeIs
<1>5. \A i \in 4 .. Len(h) + 6 : f[i] = PassedFrom(b, f, i)
  <2>1. f = [i \in 4 .. Len(b) + 1 |-> PassedFrom(b, f, i)]
    BY <1>4 DEF IsUnframing
  <2>2. Len(b) + 1 = Len(h) + 6
    BY <1>1
  <2>3. QED
    BY <2>1, <2>2
<1> DEFINE pos(k) == 4 + Len(Flat(E, k))
           S == {j \in Nat : j <= n => f[pos(n - j)] = SubSeq(p, n - j + 1, n)}
<1>6. 0 \in S
  <2>1. n - 0 = n /\ Flat(E, n) = h
    BY <1>1, FlatIs DEF h
  <2>2. pos(n) = Len(h) + 4 /\ Len(h) + 4 \in 4 .. Len(h) + 6
    BY <1>1, <2>1
  <2>3. f[Len(h) + 4] = <<>>
    <3>1. f[Len(h) + 4] = PassedFrom(b, f, Len(h) + 4)
      BY <1>5, <2>2
    <3>2. b[Len(h) + 4] = "ESC" /\ b[(Len(h) + 4) + 1] # "ESC"
      <4>1. (Len(h) + 4) + 1 = Len(h) + 5
        BY <1>1
      <4>2. QED
        BY <1>1, <4>1
    <3>3. QED
      BY <3>1, <3>2 DEF PassedFrom
  <2>4. SubSeq(p, n + 1, n) = <<>>
    BY <1>1, SubSeqEmpty
  <2>5. QED
    BY <1>1, <2>1, <2>2, <2>3, <2>4
<1>7. ASSUME NEW j \in Nat, j \in S PROVE j + 1 \in S
  <2> SUFFICES ASSUME j + 1 <= n
               PROVE  f[pos(n - (j + 1))] = SubSeq(p, n - (j + 1) + 1, n)
    OBVIOUS
  <2> DEFINE k == n - (j + 1)
             x == p[k + 1]
             a == Len(Flat(E, k))
             z == Len(Flat(E, k + 1))
  <2>1. k \in Nat /\ k < n /\ k + 1 = n - j /\ k + 2 = n - j + 1 /\ k + 1 \in 1 .. n /\ j <= n
    BY <1>1
  <2> HIDE DEF k, S
  <2>2. f[4 + z] = SubSeq(p, k + 2, n)
    BY <1>7, <2>1 DEF S
  <2>3. Flat(E, k + 1) = Flat(E, k) \o Doubled(x) /\ Flat(E, k) \in Seq(C)
    <3>1. E[k + 1] = Doubled(x)
      BY <1>2, <2>1
    <3> HIDE DEF x
    <3>2. QED
      BY <1>3, <2>1, <3>1
  <2>4. Doubled(x) \in Seq(C)
    <3>1. E[k + 1] = Doubled(x) /\ k + 1 \in 1 .. Len(E)
      BY <1>1, <1>2, <2>1
    <3> HIDE DEF x
    <3>2. E[k + 1] \in Seq(C)
      BY <1>1, <3>1, ElementOfSeq
    <3>3. QED
      BY <3>1, <3>2
  <2>5. /\ a \in Nat /\ Len(Doubled(x)) \in Nat /\ z = a + Len(Doubled(x))
        /\ \A i \in 1 .. a + Len(Doubled(x)) :
             Flat(E, k + 1)[i] = IF i <= a THEN Flat(E, k)[i] ELSE Doubled(x)[i - a]
    BY <2>3, <2>4, LenProperties, ConcatProperties
  <2>6. z <= Len(h) /\ \A i \in 1 .. z : h[i] = Flat(E, k + 1)[i]
    <3>1. k + 1 \in Nat /\ k + 1 <= Len(E)
      BY <1>1, <2>1
    <3>2. QED
      BY <1>1, <3>1, FlatPrefix DEF h
  <2> HIDE DEF x, a, z
  <2>7. \A i \in 1 .. Len(Doubled(x)) : b[3 + a + i] = Doubled(x)[i]
    <3>1. ASSUME NEW i \in 1 .. Len(Doubled(x)) PROVE b[3 + a + i] = Doubled(x)[i]
      <4>1. /\ a + i \in 1 .. z /\ a + i \in 1 .. Len(h) /\ a + i \in 1 .. a + Len(Doubled(x))
            /\ ~(a + i <= a) /\ (a + i) - a = i /\ 3 + (a + i) = 3 + a + i
        BY <1>1, <2>5, <2>6
      <4>2. b[3 + (a + i)] = h[a + i] /\ h[a + i] = Doubled(x)[i]
        BY <1>1, <2>5, <2>6, <4>1
      <4>3. QED
        BY <4>1, <4>2
    <3>2. QED
      BY <3>1
  <2>8. f[4 + a] = <<x>> \o f[4 + z]
    <3>1. CASE x = "ESC"
      <4>1. Len(Doubled(x)) = 2 /\ Doubled(x)[1] = "ESC" /\ Doubled(x)[2] = "ESC"
        BY <3>1 DEF Doubled
      <4>2. 3 + a + 1 = 4 + a /\ 3 + a + 2 = (4 + a) + 1 /\ (4 + a) + 2 = 4 + z
        BY <2>5, <4>1
      <4>3. b[4 + a] = "ESC" /\ b[(4 + a) + 1] = "ESC"
        BY <2>7, <4>1, <4>2
      <4>4. 4 + a \in 4 .. Len(h) + 6 /\ ~(4 + a >= Len(b))
        BY <1>1, <2>5, <2>6, <4>1
      <4>5. QED
        BY <1>5, <3>1, <4>2, <4>3, <4>4 DEF PassedFrom
    <3>2. CASE x # "ESC"
      <4>1. Len(Doubled(x)) = 1 /\ Doubled(x)[1] = x
        BY <3>2 DEF Doubled
      <4>2. 3 + a + 1 = 4 + a /\ (4 + a) + 1 = 4 + z
        BY <2>5, <4>1
      <4>3. b[4 + a] = x
        BY <2>7, <4>1, <4>2
      <4>4. 4 + a \in 4 .. Len(h) + 6 /\ ~(4 + a >= Len(b))
        BY <1>1, <2>5, <2>6, <4>1
      <4>5. QED
        BY <1>5, <3>2, <4>2, <4>3, <4>4 DEF PassedFrom
    <3>3. QED
      BY <3>1, <3>2
  <2>9. f[4 + a] = SubSeq(p, k + 1, n)
    <3>1. k + 1 \in 1 .. Len(p) /\ n \in k + 1 .. Len(p) /\ (k + 1) + 1 = k + 2
      BY <1>1, <2>1
    <3>2. SubSeq(p, k + 1, n) = <<p[k + 1]>> \o SubSeq(p, (k + 1) + 1, n)
      BY <3>1, SubSeqRecursiveFirst
    <3>3. QED
      BY <2>2, <2>8, <3>1, <3>2 DEF x
  <2>10. QED
    BY <2>9 DEF a, k
<1> HIDE DEF S
<1>8. n \in S
  BY <1>1, <1>6, <1>7, Induction
<1>9. f[pos(0)] = SubSeq(p, 1, n)
  <2>1. n - n = 0 /\ n - n + 1 = 1 /\ n <= n
    BY <1>1
  <2>2. f[pos(n - n)] = SubSeq(p, n - n + 1, n)
    BY <1>1, <1>8, <2>1 DEF S
  <2>3. QED
    BY <2>1, <2>2
<1>10. pos(0) = 4
  <2>1. Flat(E, 0) = <<>> /\ Len(<<>>) = 0
    BY <1>1, FlatIs, EmptySeq
  <2>2. QED
    BY <2>1
<1>11. SubSeq(p, 1, n) = p
  BY SubSeqFull
<1>12. QED
  BY <1>4, <1>9, <1>10, <1>11 DEF b

(* The tokens of the requests. *)
Tokens == Framing \cup {"under", "G", "semi", "[", "c", "t", "14", "18", "i=own", "AAAA", "m=1", "m=0", "data"}

LEMMA ApcType ==
    ASSUME NEW control \in Tokens, NEW payload \in Seq(Tokens)
    PROVE  Apc(control, payload) \in Seq(Tokens)
<1> DEFINE head == <<"ESC", "under", "G", control, "semi">>
<1>1. head \in Seq(Tokens) /\ ST \in Seq(Tokens)
  <2>1. "ESC" \in Tokens /\ "\\" \in Tokens /\ "under" \in Tokens /\ "G" \in Tokens /\ "semi" \in Tokens
    BY DEF Tokens, Framing
  <2>2. \A v, w, x, y, z \in Tokens : <<v, w, x, y, z>> \in Seq(Tokens)
    OBVIOUS
  <2>3. \A x, y \in Tokens : <<x, y>> \in Seq(Tokens)
    OBVIOUS
  <2>4. head \in Seq(Tokens)
    BY <2>1, <2>2
  <2>5. ST \in Seq(Tokens)
    BY <2>1, <2>3 DEF ST
  <2>6. QED
    BY <2>4, <2>5
<1> HIDE DEF head
<1>2. head \o payload \in Seq(Tokens)
  BY <1>1, ConcatProperties
<1>3. (head \o payload) \o ST \in Seq(Tokens)
  BY <1>1, <1>2, ConcatProperties
<1>4. QED
  BY <1>3 DEF Apc, head

LEMMA RequestType ==
    ASSUME NEW k, NEW c \in Nat
    PROVE  Request(k, c) \in Seq(Tokens)
<1>1. Da1Query \in Seq(Tokens) /\ GeometryQuery \in Seq(Tokens)
  BY DEF Da1Query, GeometryQuery, Tokens, Framing
<1>2. KgpQuery \in Seq(Tokens)
  <2>1. "i=own" \in Tokens /\ <<"AAAA">> \in Seq(Tokens)
    BY DEF Tokens
  <2>2. Apc("i=own", <<"AAAA">>) \in Seq(Tokens)
    BY <2>1, ApcType
  <2>3. Apc("i=own", <<"AAAA">>) \o Da1Query \in Seq(Tokens)
    BY <1>1, <2>2, ConcatProperties
  <2>4. QED
    BY <2>3 DEF KgpQuery, Own
<1>3. PngDisplay(c) \in Seq(Tokens)
  <2> DEFINE s == [i \in 1 .. c |-> Apc(More(i, c), <<"data">>)]
  <2>1. ASSUME NEW i \in 1 .. c PROVE Apc(More(i, c), <<"data">>) \in Seq(Tokens)
    <3>1. More(i, c) \in Tokens /\ <<"data">> \in Seq(Tokens)
      BY DEF More, Tokens
    <3>2. QED
      BY <3>1, ApcType
  <2>2. s \in Seq(Seq(Tokens))
    BY <2>1
  <2> HIDE DEF s
  <2>3. FlattenSeq(s) \in Seq(Tokens)
    BY <2>2, FlattenType
  <2>4. QED
    BY <2>3 DEF PngDisplay, s
<1>4. QED
  BY <1>1, <1>2, <1>3 DEF Request

FrameInv ==
    /\ chunks \in Nat
    /\ PassthroughIsTransparent

(* The terminal behind tmux receives what one without tmux would, for any  *)
(* number of chunks and any number of escape sequences in them             *)
(* (wrap_passthrough).                                                     *)
THEOREM PassthroughCorrect == WireSpec => []PassthroughIsTransparent
<1>1. WireInit => FrameInv
  BY DEF WireInit, FrameInv, PassthroughIsTransparent
<1>2. FrameInv /\ [WireNext]_wireVars => FrameInv'
  <2> SUFFICES ASSUME FrameInv, [WireNext]_wireVars PROVE FrameInv'
    OBVIOUS
  <2>1. CASE Send
    <3> DEFINE r == Request(kind, chunks)
    <3>1. r \in Seq(Tokens)
      BY RequestType DEF FrameInv
    <3>2. /\ received' = Passed(transport, Payload(transport, r))
          /\ kind' = kind /\ chunks' = chunks
      BY <2>1 DEF Send, fixed
    <3> HIDE DEF r
    <3>3. Framing \subseteq Tokens
      BY DEF Tokens
    <3>4. Passed(transport, Payload(transport, r)) = r
      BY <3>1, <3>3, FrameIsUndone DEF Passed, Payload
    <3>5. received' = Request(kind', chunks')
      BY <3>2, <3>4 DEF r
    <3>6. QED
      BY <3>2, <3>5 DEF FrameInv, PassthroughIsTransparent
  <2>2. CASE Answer \/ Test \/ Read
    <3>1. kind' = kind /\ chunks' = chunks /\ received' = received /\ phase # "send"
      BY <2>2 DEF Answer, Test, Read, fixed
    <3>2. QED
      BY <3>1 DEF FrameInv, PassthroughIsTransparent
  <2>3. CASE UNCHANGED wireVars
    BY <2>3 DEF wireVars, FrameInv, PassthroughIsTransparent
  <2>4. QED
    BY <2>1, <2>2, <2>3 DEF WireNext
<1>3. FrameInv => PassthroughIsTransparent
  BY DEF FrameInv
<1>4. QED
  BY <1>1, <1>2, <1>3, PTL DEF WireSpec

-----------------------------------------------------------------------------
(* The pieces of a flattened sequence, and where they lie in it.           *)

LEMMA PieceAt ==
    ASSUME NEW A, NEW s \in Seq(Seq(A)), NEW k \in Nat, k < Len(s)
    PROVE  LET b == Len(Flat(s, k)) IN
           /\ b \in Nat /\ Len(s[k + 1]) \in Nat /\ Len(Flat(s, k + 1)) = b + Len(s[k + 1])
           /\ b + Len(s[k + 1]) <= Len(FlattenSeq(s))
           /\ \A i \in 1 .. Len(s[k + 1]) : FlattenSeq(s)[b + i] = s[k + 1][i]
<1> DEFINE u == Flat(s, k)
           v == s[k + 1]
<1>0. Len(s) \in Nat /\ k + 1 \in Nat /\ k + 1 <= Len(s) /\ k <= Len(s)
  BY LenProperties
<1>1. u \in Seq(A) /\ v \in Seq(A) /\ Flat(s, k + 1) = u \o v
  BY <1>0, FlatIs, FlatType
<1>2. Len(Flat(s, k + 1)) <= Len(FlattenSeq(s))
      /\ \A x \in 1 .. Len(Flat(s, k + 1)) : FlattenSeq(s)[x] = Flat(s, k + 1)[x]
  BY <1>0, FlatPrefix
<1> HIDE DEF u, v
<1>3. /\ Len(u) \in Nat /\ Len(v) \in Nat /\ Len(u \o v) = Len(u) + Len(v)
      /\ \A i \in 1 .. Len(u) + Len(v) : (u \o v)[i] = IF i <= Len(u) THEN u[i] ELSE v[i - Len(u)]
  BY <1>1, LenProperties, ConcatProperties
<1>4. ASSUME NEW i \in 1 .. Len(v) PROVE FlattenSeq(s)[Len(u) + i] = v[i]
  <2>1. Len(u) + i \in 1 .. Len(u) + Len(v) /\ ~(Len(u) + i <= Len(u)) /\ (Len(u) + i) - Len(u) = i
    BY <1>3
  <2>2. (u \o v)[Len(u) + i] = v[i]
    BY <1>3, <2>1
  <2>3. FlattenSeq(s)[Len(u) + i] = (u \o v)[Len(u) + i]
    BY <1>1, <1>2, <1>3, <2>1
  <2>4. QED
    BY <2>2, <2>3
<1>5. QED
  BY <1>1, <1>2, <1>3, <1>4 DEF u, v

(* Every position lies in a piece. *)
LEMMA InAPiece ==
    ASSUME NEW A, NEW s \in Seq(Seq(A)), NEW x \in 1 .. Len(FlattenSeq(s))
    PROVE  \E k \in Nat : k < Len(s) /\ Len(Flat(s, k)) < x /\ x <= Len(Flat(s, k + 1))
<1> DEFINE S == {k \in Nat : k <= Len(s) /\ x <= Len(Flat(s, k))}
<1>1. Len(s) \in S
  BY FlatIs, LenProperties
<1>2. PICK k \in S : \A y \in S : k <= y
  BY <1>1, LeastNatural
<1>3. k # 0
  BY FlatIs, EmptySeq
<1>4. k - 1 \in Nat /\ k - 1 < Len(s) /\ (k - 1) + 1 = k /\ ~(k <= k - 1)
  BY <1>2, <1>3, LenProperties
<1>5. ~(x <= Len(Flat(s, k - 1)))
  BY <1>2, <1>4, LenProperties
<1>6. Len(Flat(s, k - 1)) \in Nat
  BY <1>4, PieceAt
<1>7. QED
  BY <1>2, <1>4, <1>5, <1>6

-----------------------------------------------------------------------------
(* The parsers, at one place of the input.                                 *)

AtThree(input, o, a, b, c) ==
    o + 2 <= Len(input) /\ input[o] = a /\ input[o + 1] = b /\ input[o + 2] = c

LEMMA AtTwoIs ==
    ASSUME NEW input, Len(input) \in Nat, NEW o \in Nat, NEW a, NEW b
    PROVE  At(input, o, <<a, b>>) <=> o + 1 <= Len(input) /\ input[o] = a /\ input[o + 1] = b
<1>1. /\ DOMAIN <<a, b>> = 1 .. 2 /\ Len(<<a, b>>) = 2
      /\ <<a, b>>[1] = a /\ <<a, b>>[2] = b
  OBVIOUS
<1> DEFINE s == <<a, b>>
<1> HIDE DEF s
<1>2. DOMAIN s = 1 .. 2 /\ Len(s) = 2 /\ s[1] = a /\ s[2] = b
  BY <1>1 DEF s
<1>3. o + 1 - 1 = o /\ o + 2 - 1 = o + 1
  OBVIOUS
<1>4. At(input, o, s) <=> o + 2 - 1 <= Len(input) /\ \A i \in 1 .. 2 : input[o + i - 1] = s[i]
  BY <1>2 DEF At
<1>5. (\A i \in 1 .. 2 : input[o + i - 1] = s[i]) <=> input[o] = a /\ input[o + 1] = b
  BY <1>2, <1>3
<1>6. QED
  BY <1>3, <1>4, <1>5 DEF s

LEMMA AtThreeIs ==
    ASSUME NEW input, Len(input) \in Nat, NEW o \in Nat, NEW a, NEW b, NEW c
    PROVE  At(input, o, <<a, b, c>>) <=> AtThree(input, o, a, b, c)
<1> DEFINE s == <<a, b, c>>
<1>1. DOMAIN s = 1 .. 3 /\ Len(s) = 3 /\ s[1] = a /\ s[2] = b /\ s[3] = c
  OBVIOUS
<1> HIDE DEF s
<1>2. o + 1 - 1 = o /\ o + 2 - 1 = o + 1 /\ o + 3 - 1 = o + 2
  OBVIOUS
<1>3. At(input, o, s) <=> o + 3 - 1 <= Len(input) /\ \A i \in 1 .. 3 : input[o + i - 1] = s[i]
  BY <1>1 DEF At
<1>4. (\A i \in 1 .. 3 : input[o + i - 1] = s[i])
        <=> input[o] = a /\ input[o + 1] = b /\ input[o + 2] = c
  BY <1>1, <1>2
<1>5. QED
  BY <1>2, <1>3, <1>4 DEF s, AtThree

LEMMA AtFourIs ==
    ASSUME NEW input, Len(input) \in Nat, NEW o \in Nat, NEW a, NEW b, NEW c, NEW d
    PROVE  At(input, o, <<a, b, c, d>>)
             <=> o + 3 <= Len(input) /\ AtThree(input, o, a, b, c) /\ input[o + 3] = d
<1> DEFINE s == <<a, b, c, d>>
<1>1. DOMAIN s = 1 .. 4 /\ Len(s) = 4 /\ s[1] = a /\ s[2] = b /\ s[3] = c /\ s[4] = d
  OBVIOUS
<1> HIDE DEF s
<1>2. o + 1 - 1 = o /\ o + 2 - 1 = o + 1 /\ o + 3 - 1 = o + 2 /\ o + 4 - 1 = o + 3
  OBVIOUS
<1>3. At(input, o, s) <=> o + 4 - 1 <= Len(input) /\ \A i \in 1 .. 4 : input[o + i - 1] = s[i]
  BY <1>1 DEF At
<1>4. (\A i \in 1 .. 4 : input[o + i - 1] = s[i])
        <=> input[o] = a /\ input[o + 1] = b /\ input[o + 2] = c /\ input[o + 3] = d
  BY <1>1, <1>2
<1>5. o + 3 <= Len(input) => o + 2 <= Len(input)
  OBVIOUS
<1>6. QED
  BY <1>2, <1>3, <1>4, <1>5 DEF s, AtThree

LEMMA LeastIs ==
    ASSUME NEW S \in SUBSET Int, NEW x \in S, \A y \in S : x <= y
    PROVE  Least(S) = x
<1>1. ASSUME NEW y \in S, \A z \in S : y <= z PROVE y = x
  BY <1>1
<1>2. QED
  BY <1>1 DEF Least

LEMMA SubSeqOne ==
    ASSUME NEW A, NEW s \in Seq(A), NEW m \in 1 .. Len(s)
    PROVE  SubSeq(s, m, m) = <<s[m]>>
<1>1. Len(s) \in Nat /\ m \in m .. Len(s) /\ m + 1 \in Int /\ m \in Int /\ m < m + 1
  BY LenProperties
<1>2. SubSeq(s, m, m) = <<s[m]>> \o SubSeq(s, m + 1, m)
  BY <1>1, SubSeqRecursiveFirst
<1>3. SubSeq(s, m + 1, m) = <<>>
  BY <1>1, SubSeqEmpty
<1>4. s[m] \in A /\ <<s[m]>> \in Seq(A)
  BY ElementOfSeq
<1>5. <<s[m]>> \o <<>> = <<s[m]>>
  BY <1>4, ConcatEmptySeq
<1>6. QED
  BY <1>2, <1>3, <1>5

(* A reply with control field c and status s. *)
ReplyEvent(c, s, next) == [role |-> "reply", own |-> c = Own, status |-> <<s>>, next |-> next]

ReplyHere(input, o, c, s) ==
    /\ o + 7 <= Len(input) /\ AtThree(input, o, "ESC", "under", "G")
    /\ input[o + 3] = c /\ input[o + 4] = "semi" /\ input[o + 5] = s
    /\ input[o + 6] = "ESC" /\ input[o + 7] = "\\"
    /\ c # "ESC" /\ c # "semi" /\ s # "ESC" /\ s # "semi"

LEMMA ApcWhole ==
    ASSUME NEW A, NEW input \in Seq(A), NEW o \in Nat \ {0}, NEW c \in A, NEW s \in A,
           ReplyHere(input, o, c, s)
    PROVE  ParseApcAt(input, o) = ReplyEvent(c, s, o + 8)
<1> USE DEF ReplyHere
<1> DEFINE ends == {e \in o + 3 .. Len(input) - 1 : At(input, e, ST)}
           body == SubSeq(input, o + 3, Least(ends) - 1)
           semis == {i \in DOMAIN body : body[i] = "semi"}
           control == IF semis = {} THEN body ELSE SubSeq(body, 1, Least(semis) - 1)
<1>0. Len(input) \in Nat /\ \A i \in 1 .. Len(input) : input[i] \in A
  BY LenProperties, ElementOfSeq
<1>1. At(input, o, <<"ESC", "under", "G">>)
  BY <1>0, AtThreeIs
<1>2. Least(ends) = o + 6 /\ ends # {}
  <2>1. ASSUME NEW e \in o + 3 .. Len(input) - 1
        PROVE  At(input, e, ST) <=> input[e] = "ESC" /\ input[e + 1] = "\\"
    <3>1. e \in Nat /\ e + 1 <= Len(input)
      BY <1>0
    <3>2. QED
      BY <1>0, <3>1, AtTwoIs DEF ST
  <2>2. o + 6 \in o + 3 .. Len(input) - 1 /\ (o + 6) + 1 = o + 7
    BY <1>0
  <2>3. o + 6 \in ends
    BY <2>1, <2>2
  <2>4. ASSUME NEW e \in ends PROVE o + 6 <= e
    <3>1. e \in o + 3 .. Len(input) - 1 /\ input[e] = "ESC"
      BY <2>1
    <3>2. e # o + 3 /\ e # o + 4 /\ e # o + 5
      BY <3>1
    <3>3. QED
      BY <1>0, <3>1, <3>2
  <2>5. ends \in SUBSET Int
    BY <1>0
  <2> HIDE DEF ends
  <2>6. QED
    BY <2>3, <2>4, <2>5, LeastIs
<1> HIDE DEF ends
<1>3. /\ body \in Seq(A) /\ Len(body) = 3 /\ body[1] = c /\ body[2] = "semi" /\ body[3] = s
      /\ DOMAIN body = 1 .. 3
  <2>1. Least(ends) - 1 = o + 5 /\ o + 3 \in Int /\ o + 5 \in Int
        /\ \A i \in o + 3 .. o + 5 : i \in 1 .. Len(input)
    BY <1>0, <1>2
  <2>2. /\ body \in Seq(A) /\ Len(body) = (IF o + 3 <= o + 5 THEN (o + 5) - (o + 3) + 1 ELSE 0)
        /\ \A i \in 1 .. (o + 5) - (o + 3) + 1 : body[i] = input[(o + 3) + i - 1]
    <3> DEFINE from == o + 3
               to == o + 5
    <3>1. body = SubSeq(input, from, to) /\ from \in Int /\ to \in Int
      BY <2>1
    <3>2. \A i \in from .. to : input[i] \in A
      BY <1>0, <2>1, ElementOfSeq
    <3> HIDE DEF from, to, body
    <3>3. /\ body \in Seq(A) /\ Len(body) = (IF from <= to THEN to - from + 1 ELSE 0)
          /\ \A i \in 1 .. to - from + 1 : body[i] = input[from + i - 1]
      BY <3>1, <3>2, SubSeqProperties
    <3>4. QED
      BY <3>3 DEF from, to
  <2> HIDE DEF body
  <2>3. (o + 5) - (o + 3) + 1 = 3 /\ o + 3 <= o + 5 /\ (o + 3) + 1 - 1 = o + 3
        /\ (o + 3) + 2 - 1 = o + 4 /\ (o + 3) + 3 - 1 = o + 5
    OBVIOUS
  <2>4. Len(body) = 3 /\ \A i \in 1 .. 3 : body[i] = input[(o + 3) + i - 1]
    BY <2>2, <2>3
  <2>5. body[1] = input[o + 3] /\ body[2] = input[o + 4] /\ body[3] = input[o + 5]
    BY <2>3, <2>4
  <2>6. DOMAIN body = 1 .. 3
    BY <2>2, <2>4, LenProperties
  <2>7. QED
    BY <2>2, <2>4, <2>5, <2>6
<1> HIDE DEF body
<1>4. semis = {2} /\ Least(semis) = 2
  <2>1. semis = {2}
    BY <1>3
  <2>2. {2} \in SUBSET Int /\ 2 \in {2} /\ \A y \in {2} : 2 <= y
    OBVIOUS
  <2>3. Least({2}) = 2
    BY <2>2, LeastIs
  <2>4. QED
    BY <2>1, <2>3
<1>5. SubSeq(body, 1, 1) = <<c>> /\ SubSeq(body, 3, 3) = <<s>>
  <2>1. 1 \in 1 .. Len(body) /\ 3 \in 1 .. Len(body)
    BY <1>3
  <2>2. SubSeq(body, 1, 1) = <<body[1]>> /\ SubSeq(body, 3, 3) = <<body[3]>>
    BY <1>3, <2>1, SubSeqOne
  <2>3. QED
    BY <1>3, <2>2
<1>6. control = <<c>>
  <2>1. Least(semis) - 1 = 1 /\ semis # {}
    BY <1>4
  <2>2. QED
    BY <1>5, <2>1
<1>7. (\E i \in DOMAIN control : control[i] = Own) <=> c = Own
  <2>1. DOMAIN <<c>> = {1} /\ <<c>>[1] = c
    OBVIOUS
  <2>2. QED
    BY <1>6, <2>1
<1>8. (IF semis = {} THEN <<>> ELSE SubSeq(body, Least(semis) + 1, Len(body))) = <<s>>
  <2>1. Least(semis) + 1 = 3 /\ semis # {} /\ Len(body) = 3
    BY <1>3, <1>4
  <2>2. QED
    BY <1>5, <2>1
<1>9. Least(ends) + 2 = o + 8
  BY <1>2
<1>10. ParseApcAt(input, o) =
          [role |-> "reply", own |-> \E i \in DOMAIN control : control[i] = Own,
           status |-> IF semis = {} THEN <<>> ELSE SubSeq(body, Least(semis) + 1, Len(body)),
           next |-> Least(ends) + 2]
  BY <1>1, <1>2, Zenon DEF ParseApcAt, ends, body, semis, control
<1> HIDE DEF semis, control
<1>11. QED
  BY <1>7, <1>8, <1>9, <1>10, Zenon DEF ReplyEvent

LEMMA ApcElsewhere ==
    ASSUME NEW input, Len(input) \in Nat, NEW o \in Nat, ~AtThree(input, o, "ESC", "under", "G")
    PROVE  ParseApcAt(input, o) = None
<1>1. ~At(input, o, <<"ESC", "under", "G">>)
  BY AtThreeIs
<1>2. QED
  BY <1>1, Zenon DEF ParseApcAt

LEMMA ApcOpen ==
    ASSUME NEW input, Len(input) \in Nat, NEW o \in Nat,
           \A e \in o + 3 .. Len(input) - 1 : input[e] # "ESC"
    PROVE  ParseApcAt(input, o) = None
<1>1. ASSUME NEW e \in o + 3 .. Len(input) - 1 PROVE ~At(input, e, ST)
  <2>1. e \in Nat
    OBVIOUS
  <2>2. At(input, e, <<"ESC", "\\">>) => input[e] = "ESC"
    BY <2>1, AtTwoIs
  <2>3. QED
    BY <2>2 DEF ST
<1>2. {e \in o + 3 .. Len(input) - 1 : At(input, e, ST)} = {}
  BY <1>1
<1>3. QED
  BY <1>2, Zenon DEF ParseApcAt

LEMMA SubSeqIs ==
    ASSUME NEW A, NEW s \in Seq(A), NEW B, NEW t \in Seq(B), NEW o \in Nat,
           o + Len(t) <= Len(s), \A i \in 1 .. Len(t) : s[o + i] = t[i]
    PROVE  SubSeq(s, o + 1, o + Len(t)) = t
<1> DEFINE u == SubSeq(s, o + 1, o + Len(t))
<1>1. Len(s) \in Nat /\ Len(t) \in Nat
  BY LenProperties
<1>2. o + 1 \in Int /\ o + Len(t) \in Int /\ \A i \in o + 1 .. o + Len(t) : i \in 1 .. Len(s)
  BY <1>1
<1>3. \A i \in o + 1 .. o + Len(t) : s[i] \in A
  BY <1>2, ElementOfSeq
<1>4. /\ u \in Seq(A)
      /\ Len(u) = IF o + 1 <= o + Len(t) THEN (o + Len(t)) - (o + 1) + 1 ELSE 0
      /\ \A i \in 1 .. (o + Len(t)) - (o + 1) + 1 : u[i] = s[(o + 1) + i - 1]
  BY <1>2, <1>3, SubSeqProperties
<1> HIDE DEF u
<1>5. Len(u) = Len(t)
  BY <1>1, <1>4
<1>6. (o + Len(t)) - (o + 1) + 1 = Len(t) /\ \A i \in 1 .. Len(t) : (o + 1) + i - 1 = o + i
  BY <1>1
<1>7. \A i \in 1 .. Len(t) : u[i] = t[i]
  BY <1>4, <1>6
<1>8. u = [i \in 1 .. Len(t) |-> u[i]] /\ t = [i \in 1 .. Len(t) |-> t[i]]
  BY <1>4, <1>5, LenProperties
<1>9. QED
  BY <1>7, <1>8 DEF u

LEMMA LeastOf ==
    ASSUME NEW S \in SUBSET Nat, S # {}
    PROVE  Least(S) \in S /\ \A y \in S : Least(S) <= y
<1>1. PICK x \in S : \A y \in S : x <= y
  BY LeastNatural
<1>2. Least(S) = x
  BY <1>1, LeastIs
<1>3. QED
  BY <1>1, <1>2

(* What DA1 parameters say. *)
Parametric == Numbers \cup {"semi"}
Sound(p) == ToSet(p) \subseteq U16 \cup {"semi"} /\ ~(ToSet(p) \subseteq {"semi"})
Level(p) == \E i, j \in DOMAIN p : i < j /\ p[i] # "semi" /\ p[j] = "4"
BarrierEvent(p, next) == [role |-> "barrier", next |-> next, sixel |-> Level(p)]

Levels(p) == {i \in DOMAIN p : p[i] # "semi"}

LEMMA LevelIs ==
    ASSUME NEW A, NEW p \in Seq(A), Levels(p) # {}
    PROVE  (\E i \in Levels(p) : i # Least(Levels(p)) /\ p[i] = "4") <=> Level(p)
<1> DEFINE m == Least(Levels(p))
<1>1. Levels(p) \in SUBSET Nat /\ Levels(p) \in SUBSET DOMAIN p
  BY LenProperties DEF Levels
<1>2. m \in Levels(p) /\ \A y \in Levels(p) : m <= y
  BY <1>1, LeastOf
<1> HIDE DEF m
<1>3. ASSUME NEW i \in Levels(p), i # m, p[i] = "4" PROVE Level(p)
  <2>1. m \in DOMAIN p /\ i \in DOMAIN p /\ p[m] # "semi" /\ m < i
    BY <1>1, <1>2, <1>3 DEF Levels
  <2>2. QED
    BY <1>3, <2>1 DEF Level
<1>4. ASSUME Level(p) PROVE \E i \in Levels(p) : i # m /\ p[i] = "4"
  <2>1. PICK i \in DOMAIN p, j \in DOMAIN p : i < j /\ p[i] # "semi" /\ p[j] = "4"
    BY <1>4 DEF Level
  <2>2. i \in Levels(p) /\ j \in Levels(p)
    BY <2>1 DEF Levels
  <2>3. j # m
    BY <1>1, <1>2, <2>1, <2>2
  <2>4. QED
    BY <2>1, <2>2, <2>3
<1>5. QED
  BY <1>3, <1>4 DEF m

LEMMA SoundIs ==
    ASSUME NEW A, NEW p \in Seq(A)
    PROVE  Sound(p) <=> Levels(p) # {} /\ \A i \in Levels(p) : p[i] \in U16
<1>1. ToSet(p) = {p[i] : i \in DOMAIN p}
  BY DEF ToSet
<1>2. "semi" \notin U16
  BY DEF U16
<1>3. (\A i \in DOMAIN p : p[i] \in U16 \cup {"semi"}) <=> \A i \in Levels(p) : p[i] \in U16
  BY DEF Levels
<1>4. (\A i \in DOMAIN p : p[i] \in {"semi"}) <=> Levels(p) = {}
  BY DEF Levels
<1>5. QED
  BY <1>1, <1>3, <1>4 DEF Sound

LEMMA Da1Whole ==
    ASSUME NEW A, NEW input \in Seq(A), NEW o \in Nat \ {0}, NEW p \in Seq(Parametric),
           o + 3 + Len(p) <= Len(input), AtThree(input, o, "ESC", "[", "?"),
           \A i \in 1 .. Len(p) : input[o + 2 + i] = p[i], input[o + 3 + Len(p)] = "c"
    PROVE  ParseDa1At(input, o) = IF Sound(p) THEN BarrierEvent(p, o + 4 + Len(p)) ELSE None
<1> DEFINE stops == {e \in o + 3 .. Len(input) : input[e] \notin Numbers \cup {"semi"}}
           body == SubSeq(input, o + 3, Least(stops) - 1)
           n == Len(p)
<1>1. Len(input) \in Nat /\ n \in Nat
  BY LenProperties
<1> HIDE DEF n
<1>2. At(input, o, <<"ESC", "[", "?">>)
  BY <1>1, AtThreeIs
<1>3. Least(stops) = o + 3 + n /\ stops # {}
  <2>1. o + 3 + n \in o + 3 .. Len(input)
    BY <1>1 DEF n
  <2>2. "c" \notin Numbers \cup {"semi"}
    BY DEF Numbers, U16
  <2>3. o + 3 + n \in stops
    BY <2>1, <2>2 DEF n
  <2>4. ASSUME NEW e \in stops PROVE o + 3 + n <= e
    <3>1. e \in o + 3 .. Len(input) /\ input[e] \notin Numbers \cup {"semi"}
      OBVIOUS
    <3>2. ASSUME e < o + 3 + n PROVE FALSE
      <4>1. e - o - 2 \in 1 .. n /\ o + 2 + (e - o - 2) = e
        BY <1>1, <3>1, <3>2
      <4>2. input[e] = p[e - o - 2]
        BY <4>1 DEF n
      <4>3. p[e - o - 2] \in Parametric
        BY <4>1, ElementOfSeq DEF n
      <4>4. QED
        BY <3>1, <4>2, <4>3 DEF Parametric
    <3>3. QED
      BY <1>1, <3>1, <3>2
  <2>5. stops \in SUBSET Int
    BY <1>1
  <2> HIDE DEF stops
  <2>6. QED
    BY <2>3, <2>4, <2>5, LeastIs
<1> HIDE DEF stops
<1>4. body = p
  <2>1. Least(stops) - 1 = (o + 2) + Len(p) /\ o + 3 = (o + 2) + 1 /\ o + 2 \in Nat
        /\ (o + 2) + Len(p) <= Len(input)
    BY <1>1, <1>3 DEF n
  <2>2. SubSeq(input, (o + 2) + 1, (o + 2) + Len(p)) = p
    BY <2>1, SubSeqIs
  <2>3. QED
    BY <2>1, <2>2
<1> HIDE DEF body
<1>5. {i \in DOMAIN body : body[i] # "semi"} = Levels(p)
  BY <1>4 DEF Levels
<1>6. input[Least(stops)] = "c" /\ Least(stops) + 1 = o + 4 + n
  BY <1>1, <1>3 DEF n
<1> DEFINE levels == {i \in DOMAIN body : body[i] # "semi"}
<1>7. ParseDa1At(input, o) =
        IF input[Least(stops)] # "c" \/ levels = {} \/ \E i \in levels : body[i] \notin U16
        THEN None
        ELSE [role |-> "barrier", next |-> Least(stops) + 1,
              sixel |-> \E i \in levels : i # Least(levels) /\ body[i] = "4"]
  BY <1>2, <1>3, Zenon DEF ParseDa1At, stops, body
<1> HIDE DEF levels
<1>8. levels = Levels(p)
  BY <1>5 DEF levels
<1>9. CASE Sound(p)
  <2>1. ~(input[Least(stops)] # "c" \/ levels = {} \/ \E i \in levels : body[i] \notin U16)
    BY <1>4, <1>6, <1>8, <1>9, SoundIs
  <2>2. (\E i \in levels : i # Least(levels) /\ body[i] = "4") <=> Level(p)
    BY <1>4, <1>8, <1>9, SoundIs, LevelIs
  <2>3. ParseDa1At(input, o) =
          [role |-> "barrier", next |-> Least(stops) + 1,
           sixel |-> \E i \in levels : i # Least(levels) /\ body[i] = "4"]
    BY <1>7, <2>1, Zenon
  <2> DEFINE e == \E i \in levels : i # Least(levels) /\ body[i] = "4"
  <2>4. e = Level(p)
    BY <2>2, Zenon DEF Level
  <2>5. ParseDa1At(input, o) = [role |-> "barrier", next |-> Least(stops) + 1, sixel |-> e]
    BY <2>3
  <2> HIDE DEF e
  <2>6. ParseDa1At(input, o) = BarrierEvent(p, o + 4 + Len(p))
    BY <1>6, <2>4, <2>5 DEF BarrierEvent, n
  <2>7. QED
    BY <1>9, <2>6
<1>10. CASE ~Sound(p)
  <2>1. levels = {} \/ \E i \in levels : body[i] \notin U16
    BY <1>4, <1>8, <1>10, SoundIs
  <2>2. QED
    BY <1>7, <1>10, <2>1, Zenon
<1>11. QED
  BY <1>9, <1>10

LEMMA Da1Elsewhere ==
    ASSUME NEW input, Len(input) \in Nat, NEW o \in Nat, ~AtThree(input, o, "ESC", "[", "?")
    PROVE  ParseDa1At(input, o) = None
<1>1. ~At(input, o, <<"ESC", "[", "?">>)
  BY AtThreeIs
<1>2. QED
  BY <1>1, Zenon DEF ParseDa1At

LEMMA Da1Open ==
    ASSUME NEW input, Len(input) \in Nat, NEW o \in Nat,
           \A e \in o + 3 .. Len(input) : input[e] \in Parametric
    PROVE  ParseDa1At(input, o) = None
<1>1. {e \in o + 3 .. Len(input) : input[e] \notin Numbers \cup {"semi"}} = {}
  BY DEF Parametric
<1>2. QED
  BY <1>1, Zenon DEF ParseDa1At

(* A report of size h by w. *)
ReportEvent(code, h, w, next) == [role |-> code, size |-> <<h, "semi", w>>, next |-> next]

LEMMA ReportWhole ==
    ASSUME NEW A, NEW input \in Seq(A), NEW o \in Nat \ {0}, o + 7 <= Len(input), NEW code, NEW limit,
           AtThree(input, o, "ESC", "[", code), input[o + 3] = "semi", input[o + 4] # "t",
           input[o + 5] = "semi", input[o + 6] # "t", input[o + 7] = "t"
    PROVE  ParseReportAt(input, o, code, limit) =
             IF {input[o + 4], input[o + 6]} \subseteq limit \cap Positive
             THEN ReportEvent(code, input[o + 4], input[o + 6], o + 8) ELSE None
<1> DEFINE h == input[o + 4]
           w == input[o + 6]
<1>0. h \in A /\ w \in A /\ "semi" \in A
  <2>1. o + 4 \in 1 .. Len(input) /\ o + 5 \in 1 .. Len(input) /\ o + 6 \in 1 .. Len(input)
    BY LenProperties
  <2>2. QED
    BY <2>1, ElementOfSeq
<1> HIDE DEF h, w
<1> DEFINE ends == {e \in o + 4 .. Len(input) : input[e] = "t"}
           body == SubSeq(input, o + 4, Least(ends) - 1)
           size == <<h, "semi", w>>
<1>1. Len(input) \in Nat
  BY LenProperties
<1>2. At(input, o, <<"ESC", "[", code, "semi">>)
  <2>1. o + 3 <= Len(input)
    BY <1>1
  <2>2. QED
    BY <1>1, <2>1, AtFourIs
<1>3. Least(ends) = o + 7 /\ ends # {}
  <2>1. o + 7 \in ends
    BY <1>1
  <2>2. ASSUME NEW e \in ends PROVE o + 7 <= e
    <3>1. e \in o + 4 .. Len(input) /\ input[e] = "t"
      OBVIOUS
    <3>2. e # o + 4 /\ e # o + 5 /\ e # o + 6
      BY <3>1
    <3>3. QED
      BY <1>1, <3>1, <3>2
  <2>3. ends \in SUBSET Int
    BY <1>1
  <2> HIDE DEF ends
  <2>4. QED
    BY <2>1, <2>2, <2>3, LeastIs
<1> HIDE DEF ends
<1>4. /\ size \in Seq(A) /\ Len(size) = 3
      /\ size[1] = h /\ size[2] = "semi" /\ size[3] = w
  BY <1>0
<1> HIDE DEF size
<1>5. body = size
  <2>1. o + 3 \in Nat /\ Least(ends) - 1 = (o + 3) + 3 /\ (o + 3) + 1 = o + 4
        /\ (o + 3) + 2 = o + 5 /\ (o + 3) + 3 = o + 6 /\ (o + 3) + 3 <= Len(input)
    BY <1>1, <1>3
  <2>2. \A i \in 1 .. 3 : input[(o + 3) + i] = size[i]
    BY <1>4, <2>1 DEF h, w
  <2>3. SubSeq(input, (o + 3) + 1, (o + 3) + 3) = size
    BY <1>4, <2>1, <2>2, SubSeqIs
  <2>4. QED
    BY <2>1, <2>3
<1> HIDE DEF body
<1>6. Least(ends) + 1 = o + 8
  BY <1>3
<1>7. ParseReportAt(input, o, code, limit) =
        IF /\ Len(body) = 3 /\ body[2] = "semi"
           /\ {body[1], body[3]} \subseteq limit \cap Positive
        THEN [role |-> code, size |-> body, next |-> Least(ends) + 1]
        ELSE None
  BY <1>2, <1>3, Zenon DEF ParseReportAt, ends, body
<1>8. QED
  BY <1>4, <1>5, <1>6, <1>7, Zenon DEF ReportEvent, size, h, w

LEMMA ReportElsewhere ==
    ASSUME NEW input, Len(input) \in Nat, NEW o \in Nat, NEW code, NEW limit,
           ~(o + 3 <= Len(input) /\ AtThree(input, o, "ESC", "[", code) /\ input[o + 3] = "semi")
    PROVE  ParseReportAt(input, o, code, limit) = None
<1>1. ~At(input, o, <<"ESC", "[", code, "semi">>)
  BY AtFourIs
<1>2. QED
  BY <1>1, Zenon DEF ParseReportAt

LEMMA ReportOpen ==
    ASSUME NEW input, Len(input) \in Nat, NEW o \in Nat, NEW code, NEW limit,
           \A e \in o + 4 .. Len(input) : input[e] # "t"
    PROVE  ParseReportAt(input, o, code, limit) = None
<1>1. {e \in o + 4 .. Len(input) : input[e] = "t"} = {}
  OBVIOUS
<1>2. QED
  BY <1>1, Zenon DEF ParseReportAt

-----------------------------------------------------------------------------
(* What a terminal writes, and what a parser makes of it.                  *)

ParserNames == {"kgp", "sixel", "pixels", "cells"}
Alphabet == STRING \cup Numbers \cup {"ESC", "under", "G", "semi", "\\", "[", "?", "c", "t", "4", "8"}

LEMMA KgpWritten ==
    ASSUME NEW d \in KgpReply
    PROVE  LET b == Written(d) IN
           /\ b \in Seq(Alphabet) /\ Len(b) = 8 /\ d.t = "kgp"
           /\ d.control \in Alphabet /\ d.control # "ESC" /\ d.control # "semi"
           /\ d.status \in Alphabet /\ d.status # "ESC" /\ d.status # "semi"
           /\ b[1] = "ESC" /\ b[2] = "under" /\ b[3] = "G" /\ b[4] = d.control /\ b[5] = "semi"
           /\ b[6] = d.status /\ b[7] = "ESC" /\ b[8] = "\\"
<1>1. /\ d.t = "kgp"
      /\ d.control \in Alphabet /\ d.control # "ESC" /\ d.control # "semi"
      /\ d.status \in Alphabet /\ d.status # "ESC" /\ d.status # "semi"
  BY DEF KgpReply, Fields, Alphabet
<1> DEFINE c == d.control
           s == d.status
           u == <<"ESC", "under", "G", c, "semi">>
           v == u \o <<s>>
<1>2. Written(d) = v \o <<"ESC", "\\">>
  BY <1>1 DEF Written, Apc, ST
<1> HIDE DEF c, s
<1>3. c \in Alphabet /\ s \in Alphabet
  BY <1>1 DEF c, s
<1>4. "ESC" \in Alphabet /\ "under" \in Alphabet /\ "G" \in Alphabet /\ "semi" \in Alphabet
      /\ "\\" \in Alphabet
  BY DEF Alphabet
<1>5. /\ u \in Seq(Alphabet) /\ Len(u) = 5
      /\ u[1] = "ESC" /\ u[2] = "under" /\ u[3] = "G" /\ u[4] = c /\ u[5] = "semi"
  BY <1>3, <1>4
<1> DEFINE w == <<"ESC", "\\">>
           y == <<s>>
<1>6. /\ w \in Seq(Alphabet) /\ Len(w) = 2 /\ w[1] = "ESC" /\ w[2] = "\\"
      /\ y \in Seq(Alphabet) /\ Len(y) = 1 /\ y[1] = s
  BY <1>3, <1>4
<1> HIDE DEF u, w, y
<1>7. /\ v \in Seq(Alphabet) /\ Len(v) = 6
      /\ \A i \in 1 .. 6 : v[i] = IF i <= 5 THEN u[i] ELSE y[i - 5]
  <2>1. v = u \o y
    BY DEF y
  <2>2. /\ u \o y \in Seq(Alphabet) /\ Len(u \o y) = Len(u) + Len(y)
        /\ \A i \in 1 .. Len(u) + Len(y) :
             (u \o y)[i] = IF i <= Len(u) THEN u[i] ELSE y[i - Len(u)]
    BY <1>5, <1>6, ConcatProperties
  <2>3. Len(u) = 5 /\ Len(u) + Len(y) = 6
    BY <1>5, <1>6
  <2> HIDE DEF v
  <2>4. QED
    BY <2>1, <2>2, <2>3
<1> HIDE DEF v
<1>8. /\ v \o w \in Seq(Alphabet) /\ Len(v \o w) = 8
      /\ \A i \in 1 .. 8 : (v \o w)[i] = IF i <= 6 THEN v[i] ELSE w[i - 6]
  <2>1. /\ v \o w \in Seq(Alphabet) /\ Len(v \o w) = Len(v) + Len(w)
        /\ \A i \in 1 .. Len(v) + Len(w) :
             (v \o w)[i] = IF i <= Len(v) THEN v[i] ELSE w[i - Len(v)]
    BY <1>6, <1>7, ConcatProperties
  <2>2. Len(v) = 6 /\ Len(v) + Len(w) = 8
    BY <1>6, <1>7
  <2>3. QED
    BY <2>1, <2>2
<1>9. Written(d) = v \o w
  BY <1>2 DEF w
<1> DEFINE b == v \o w
<1> HIDE DEF b
<1>10. /\ b[1] = "ESC" /\ b[2] = "under" /\ b[3] = "G" /\ b[4] = c /\ b[5] = "semi"
       /\ b[6] = s /\ b[7] = "ESC" /\ b[8] = "\\"
  <2>1. \A i \in 1 .. 8 : b[i] = IF i <= 6 THEN v[i] ELSE w[i - 6]
    BY <1>8 DEF b
  <2>2. b[1] = u[1] /\ b[2] = u[2] /\ b[3] = u[3] /\ b[4] = u[4] /\ b[5] = u[5]
    BY <1>7, <2>1
  <2>3. b[6] = y[1] /\ b[7] = w[1] /\ b[8] = w[2]
    BY <1>7, <2>1
  <2>4. QED
    BY <1>5, <1>6, <2>2, <2>3
<1>11. QED
  BY <1>1, <1>8, <1>9, <1>10 DEF b, c, s

LEMMA Da1Written ==
    ASSUME NEW d \in Da1Reply
    PROVE  LET b == Written(d)
               p == d.params
           IN  /\ b \in Seq(Alphabet) /\ Len(b) = Len(p) + 4 /\ Len(p) \in Nat /\ d.t = "da1"
               /\ p \in Seq(Parametric)
               /\ b[1] = "ESC" /\ b[2] = "[" /\ b[3] = "?"
               /\ (\A i \in 1 .. Len(p) : b[3 + i] = p[i]) /\ b[Len(p) + 4] = "c"
<1> DEFINE p == d.params
           u == <<"ESC", "[", "?">>
           v == u \o p
           w == <<"c">>
<1>1. d.t = "da1" /\ p \in Seq(Parametric)
  BY DEF Da1Reply, Parameters, Parametric
<1>2. Written(d) = v \o w
  BY <1>1 DEF Written
<1> HIDE DEF p
<1>3. p \in Seq(Alphabet) /\ Len(p) \in Nat
  <2>1. Parametric \subseteq Alphabet
    BY DEF Parametric, Alphabet
  <2>2. Len(p) \in Nat /\ p \in [1 .. Len(p) -> Parametric]
    BY <1>1, LenProperties
  <2>3. p \in [1 .. Len(p) -> Alphabet]
    BY <2>1, <2>2
  <2>4. QED
    BY <2>2, <2>3
<1>4. /\ u \in Seq(Alphabet) /\ Len(u) = 3 /\ u[1] = "ESC" /\ u[2] = "[" /\ u[3] = "?"
      /\ w \in Seq(Alphabet) /\ Len(w) = 1 /\ w[1] = "c"
  <2>1. "ESC" \in Alphabet /\ "[" \in Alphabet /\ "?" \in Alphabet /\ "c" \in Alphabet
    BY DEF Alphabet
  <2>2. QED
    BY <2>1
<1> HIDE DEF u, w
<1>5. /\ v \in Seq(Alphabet) /\ Len(v) = 3 + Len(p)
      /\ \A i \in 1 .. 3 + Len(p) : v[i] = IF i <= 3 THEN u[i] ELSE p[i - 3]
  <2>1. /\ v \in Seq(Alphabet) /\ Len(v) = Len(u) + Len(p)
        /\ \A i \in 1 .. Len(u) + Len(p) : v[i] = IF i <= Len(u) THEN u[i] ELSE p[i - Len(u)]
    BY <1>3, <1>4, ConcatProperties
  <2> HIDE DEF v
  <2>2. QED
    BY <1>3, <1>4, <2>1
<1> HIDE DEF v
<1> DEFINE b == v \o w
<1>6. /\ b \in Seq(Alphabet) /\ Len(b) = 4 + Len(p)
      /\ \A i \in 1 .. 4 + Len(p) : b[i] = IF i <= 3 + Len(p) THEN v[i] ELSE w[i - (3 + Len(p))]
  <2>1. /\ b \in Seq(Alphabet) /\ Len(b) = Len(v) + Len(w)
        /\ \A i \in 1 .. Len(v) + Len(w) : b[i] = IF i <= Len(v) THEN v[i] ELSE w[i - Len(v)]
    BY <1>4, <1>5, ConcatProperties
  <2> HIDE DEF b
  <2>2. Len(v) + Len(w) = 4 + Len(p)
    BY <1>3, <1>4, <1>5
  <2>3. QED
    BY <1>5, <2>1, <2>2
<1> HIDE DEF b
<1>7. b[1] = "ESC" /\ b[2] = "[" /\ b[3] = "?"
  BY <1>3, <1>4, <1>5, <1>6
<1>8. ASSUME NEW i \in 1 .. Len(p) PROVE b[3 + i] = p[i]
  <2>1. 3 + i \in 1 .. 4 + Len(p) /\ 3 + i <= 3 + Len(p) /\ 3 + i \in 1 .. 3 + Len(p)
        /\ ~(3 + i <= 3) /\ (3 + i) - 3 = i
    BY <1>3
  <2>2. QED
    BY <1>5, <1>6, <2>1
<1>9. b[Len(p) + 4] = "c"
  <2>1. Len(p) + 4 \in 1 .. 4 + Len(p) /\ ~(Len(p) + 4 <= 3 + Len(p))
        /\ (Len(p) + 4) - (3 + Len(p)) = 1
    BY <1>3
  <2>2. QED
    BY <1>4, <1>6, <2>1
<1>10. Written(d) = b /\ p \in Seq(Parametric)
  BY <1>1, <1>2 DEF b
<1>11. QED
  BY <1>1, <1>3, <1>6, <1>7, <1>8, <1>9, <1>10 DEF p

LEMMA ReportWritten ==
    ASSUME NEW d \in Report
    PROVE  LET b == Written(d) IN
           /\ b \in Seq(Alphabet) /\ Len(b) = 8 /\ d.t = "report" /\ d.code \in {"4", "8"}
           /\ d.size[1] \in Numbers /\ d.size[2] \in Numbers /\ ToSet(d.size) = {d.size[1], d.size[2]}
           /\ b[1] = "ESC" /\ b[2] = "[" /\ b[3] = d.code /\ b[4] = "semi" /\ b[5] = d.size[1]
           /\ b[6] = "semi" /\ b[7] = d.size[2] /\ b[8] = "t"
<1>1. d.t = "report" /\ d.code \in {"4", "8"} /\ d.size \in Numbers \X Numbers
  BY DEF Report
<1>2. PICK h \in Numbers, w \in Numbers : d.size = <<h, w>>
  BY <1>1
<1>3. d.size[1] = h /\ d.size[2] = w
  BY <1>2
<1>4. ToSet(d.size) = {h, w}
  <2>1. ToSet(<<h, w>>) = {<<h, w>>[i] : i \in DOMAIN <<h, w>>}
    BY DEF ToSet
  <2>2. DOMAIN <<h, w>> = {1, 2} /\ <<h, w>>[1] = h /\ <<h, w>>[2] = w
    OBVIOUS
  <2>3. ToSet(<<h, w>>) = {h, w}
    BY <2>1, <2>2
  <2>4. QED
    BY <1>2, <2>3
<1>5. Written(d) = <<"ESC", "[", d.code, "semi", h, "semi", w, "t">>
  BY <1>1, <1>3 DEF Written
<1> DEFINE c == d.code
<1>6. c \in Alphabet
  BY <1>1 DEF Alphabet
<1> HIDE DEF c
<1> DEFINE b == <<"ESC", "[", c, "semi", h, "semi", w, "t">>
<1>7. /\ b \in Seq(Alphabet) /\ Len(b) = 8
      /\ b[1] = "ESC" /\ b[2] = "[" /\ b[3] = c /\ b[4] = "semi" /\ b[5] = h
      /\ b[6] = "semi" /\ b[7] = w /\ b[8] = "t"
  <2>1. "ESC" \in Alphabet /\ "[" \in Alphabet /\ "semi" \in Alphabet /\ "t" \in Alphabet
        /\ h \in Alphabet /\ w \in Alphabet
    BY DEF Alphabet
  <2>2. QED
    BY <1>6, <2>1
<1>8. QED
  BY <1>1, <1>3, <1>4, <1>5, <1>7 DEF c

LEMMA KeyWritten ==
    ASSUME NEW d \in [t : {"key"}, key : KeyInput]
    PROVE  /\ Written(d) = d.key /\ Written(d) \in Seq(Alphabet) /\ d.t = "key"
           /\ \A i \in 1 .. Len(Written(d)) :
                Written(d)[i] # "under" /\ Written(d)[i] # "?" /\ Written(d)[i] # "semi"
<1>1. d.t = "key" /\ d.key \in Seq(STRING \ {"under", "?", "semi"})
  BY DEF KeyInput
<1>2. Written(d) = d.key
  BY <1>1 DEF Written
<1> DEFINE k == d.key
<1> HIDE DEF k
<1>3. Len(k) \in Nat /\ k \in [1 .. Len(k) -> STRING \ {"under", "?", "semi"}]
  BY <1>1, LenProperties DEF k
<1>4. k \in [1 .. Len(k) -> Alphabet]
  <2>1. STRING \ {"under", "?", "semi"} \subseteq Alphabet
    BY DEF Alphabet
  <2>2. QED
    BY <1>3, <2>1
<1>5. k \in Seq(Alphabet)
  BY <1>3, <1>4
<1>6. QED
  BY <1>1, <1>2, <1>3, <1>5 DEF k

LEMMA ParseAtIs ==
    ASSUME NEW input, NEW o
    PROVE  /\ ParseAt("kgp", input, o) =
                IF ParseApcAt(input, o) # None THEN ParseApcAt(input, o) ELSE ParseDa1At(input, o)
           /\ ParseAt("sixel", input, o) = ParseDa1At(input, o)
           /\ ParseAt("pixels", input, o) = ParseReportAt(input, o, "4", Numbers)
           /\ ParseAt("cells", input, o) = ParseReportAt(input, o, "8", U16)
  BY DEF ParseAt

NothingAt(input, o) == \A p \in ParserNames : ParseAt(p, input, o) = None

LEMMA NothingIs ==
    ASSUME NEW input, NEW o, ParseApcAt(input, o) = None, ParseDa1At(input, o) = None,
           ParseReportAt(input, o, "4", Numbers) = None, ParseReportAt(input, o, "8", U16) = None
    PROVE  NothingAt(input, o)
  BY ParseAtIs DEF NothingAt, ParserNames

(* No parser finds anything where no prefix begins. *)
LEMMA NothingHere ==
    ASSUME NEW input, Len(input) \in Nat, NEW o \in Nat,
           input[o] = "ESC" /\ o + 1 <= Len(input) => input[o + 1] # "under" /\ input[o + 1] # "["
    PROVE  NothingAt(input, o)
<1>1. o + 2 <= Len(input) => o + 1 <= Len(input)
  OBVIOUS
<1>2. \A c : ~AtThree(input, o, "ESC", "under", c) /\ ~AtThree(input, o, "ESC", "[", c)
  BY <1>1 DEF AtThree
<1>3. ParseApcAt(input, o) = None
  BY <1>2, ApcElsewhere
<1>4. ParseDa1At(input, o) = None
  BY <1>2, Da1Elsewhere
<1>5. ParseReportAt(input, o, "4", Numbers) = None /\ ParseReportAt(input, o, "8", U16) = None
  BY <1>2, ReportElsewhere
<1>6. QED
  BY <1>3, <1>4, <1>5, NothingIs

LEMMA ExpectedIs ==
    ASSUME NEW d, NEW next
    PROVE  /\ d \in KgpReply =>
                /\ Expected("kgp", d, next) = ReplyEvent(d.control, d.status, next)
                /\ \A p \in ParserNames \ {"kgp"} : Expected(p, d, next) = None
           /\ d \in Da1Reply =>
                /\ \A p \in {"kgp", "sixel"} :
                     Expected(p, d, next) =
                       IF Sound(d.params) THEN BarrierEvent(d.params, next) ELSE None
                /\ \A p \in {"pixels", "cells"} : Expected(p, d, next) = None
           /\ d \in [t : {"key"}, key : KeyInput] =>
                \A p \in ParserNames : Expected(p, d, next) = None
<1>1. ASSUME d \in KgpReply
      PROVE  /\ Expected("kgp", d, next) = ReplyEvent(d.control, d.status, next)
             /\ \A p \in ParserNames \ {"kgp"} : Expected(p, d, next) = None
  <2>1. d.t = "kgp"
    BY <1>1 DEF KgpReply
  <2>2. QED
    BY <2>1 DEF Expected, ReplyEvent, ParserNames
<1>2. ASSUME d \in Da1Reply
      PROVE  /\ \A p \in {"kgp", "sixel"} :
                  Expected(p, d, next) =
                    IF Sound(d.params) THEN BarrierEvent(d.params, next) ELSE None
             /\ \A p \in {"pixels", "cells"} : Expected(p, d, next) = None
  <2>1. d.t = "da1"
    BY <1>2 DEF Da1Reply
  <2>2. ASSUME NEW p \in {"kgp", "sixel"}
        PROVE  Expected(p, d, next) = IF Sound(d.params) THEN BarrierEvent(d.params, next) ELSE None
    BY <2>1 DEF Expected, BarrierEvent, Sound, Level
  <2>3. ASSUME NEW p \in {"pixels", "cells"} PROVE Expected(p, d, next) = None
    BY <2>1 DEF Expected
  <2>4. QED
    BY <2>2, <2>3
<1>3. ASSUME d \in [t : {"key"}, key : KeyInput] PROVE \A p \in ParserNames : Expected(p, d, next) = None
  <2>1. d.t = "key"
    BY <1>3
  <2>2. QED
    BY <2>1 DEF Expected
<1>4. QED
  BY <1>1, <1>2, <1>3

Fits(p) == (IF p = "pixels" THEN Numbers ELSE U16) \cap Positive
Code(p) == IF p = "pixels" THEN "4" ELSE "8"

LEMMA ExpectedReport ==
    ASSUME NEW d \in Report, NEW next
    PROVE  /\ \A p \in {"kgp", "sixel"} : Expected(p, d, next) = None
           /\ \A p \in {"pixels", "cells"} :
                Expected(p, d, next) =
                  IF d.code = Code(p) /\ {d.size[1], d.size[2]} \subseteq Fits(p)
                  THEN ReportEvent(d.code, d.size[1], d.size[2], next) ELSE None
<1>1. /\ d.t = "report" /\ d.code \in {"4", "8"} /\ d.size[1] \in Numbers /\ d.size[2] \in Numbers
      /\ ToSet(d.size) = {d.size[1], d.size[2]}
  BY ReportWritten
<1>2. \A p \in {"kgp", "sixel"} : Expected(p, d, next) = None
  BY <1>1 DEF Expected
<1>3. ASSUME NEW p \in {"pixels", "cells"}
      PROVE  {d.size[1], d.size[2]} \subseteq Fits(p)
               <=> /\ "0" \notin ToSet(d.size)
                   /\ p = "cells" => "65536" \notin ToSet(d.size)
  BY <1>1 DEF Fits, Positive, Numbers, U16
<1>4. ASSUME NEW p \in {"pixels", "cells"}
      PROVE  <<p, d.code>> \in {<<"pixels", "4">>, <<"cells", "8">>} <=> d.code = Code(p)
  BY <1>1 DEF Code
<1>5. ASSUME NEW p \in {"pixels", "cells"}
      PROVE  Expected(p, d, next) =
               IF /\ <<p, d.code>> \in {<<"pixels", "4">>, <<"cells", "8">>}
                  /\ "0" \notin ToSet(d.size) /\ (p = "cells" => "65536" \notin ToSet(d.size))
               THEN ReportEvent(d.code, d.size[1], d.size[2], next) ELSE None
  BY <1>1 DEF Expected, ReportEvent
<1>6. QED
  BY <1>2, <1>3, <1>4, <1>5

-----------------------------------------------------------------------------
(* A reply in the input: from its first byte its event is found if all of  *)
(* it has been read, and nothing is found anywhere else in it.             *)

(* The input holds b, from its byte `from` on, behind position z. *)
Laid(input, z, from, b) ==
    \A y \in from .. Len(b) : z + y <= Len(input) => input[z + y] = b[y]

FoundWhole(p, input, z, y, d) ==
    ParseAt(p, input, z + y) =
      IF y = 1 /\ z + Len(Written(d)) <= Len(input)
      THEN Expected(p, d, z + Len(Written(d)) + 1) ELSE None

LEMMA KgpLaid ==
    ASSUME NEW d \in KgpReply, NEW input \in Seq(Alphabet), NEW z \in Int, NEW from \in Nat \ {0},
           z + from >= 1, Laid(input, z, from, Written(d)),
           NEW y \in from .. Len(Written(d)), z + y <= Len(input)
    PROVE  \A p \in ParserNames : FoundWhole(p, input, z, y, d)
<1> DEFINE b == Written(d)
           o == z + y
<1>1. /\ Len(b) = 8
      /\ d.control \in Alphabet /\ d.control # "ESC" /\ d.control # "semi"
      /\ d.status \in Alphabet /\ d.status # "ESC" /\ d.status # "semi"
      /\ b[1] = "ESC" /\ b[2] = "under" /\ b[3] = "G" /\ b[4] = d.control /\ b[5] = "semi"
      /\ b[6] = d.status /\ b[7] = "ESC" /\ b[8] = "\\"
  BY KgpWritten
<1>2. \A x \in from .. 8 : z + x <= Len(input) => input[z + x] = b[x]
  BY <1>1 DEF Laid
<1> HIDE DEF b
<1>3. Len(input) \in Nat /\ y \in 1 .. 8 /\ y \in from .. 8 /\ o \in Nat \ {0} /\ o <= Len(input)
  BY <1>1, LenProperties DEF b
<1>4. input[o] = b[y]
  BY <1>2, <1>3
<1>5. o + 1 <= Len(input) /\ y < 8 => input[o + 1] = b[y + 1]
  <2>1. y < 8 => y + 1 \in from .. 8 /\ z + (y + 1) = o + 1
    BY <1>3
  <2>2. QED
    BY <1>2, <2>1
<1> HIDE DEF o
<1>6. CASE y # 1
  <2>1. input[o] = "ESC" => y = 7
    <3>1. y = 2 \/ y = 3 \/ y = 4 \/ y = 5 \/ y = 6 \/ y = 7 \/ y = 8
      BY <1>3, <1>6
    <3>2. /\ b[2] # "ESC" /\ b[3] # "ESC" /\ b[4] # "ESC" /\ b[5] # "ESC" /\ b[6] # "ESC"
          /\ b[8] # "ESC"
      BY <1>1
    <3>3. QED
      BY <1>4, <3>1, <3>2
  <2>2. input[o] = "ESC" /\ o + 1 <= Len(input) => input[o + 1] = "\\"
    BY <1>1, <1>5, <2>1
  <2>3. NothingAt(input, o)
    BY <1>3, <2>2, NothingHere
  <2>4. QED
    BY <1>6, <2>3 DEF NothingAt, FoundWhole, o
<1>7. CASE y = 1
  <2>1. o + 1 <= Len(input) => input[o + 1] = "under"
    BY <1>1, <1>5, <1>7
  <2>2. \A c : ~AtThree(input, o, "ESC", "[", c)
    <3>1. o + 2 <= Len(input) => o + 1 <= Len(input)
      BY <1>3
    <3>2. QED
      BY <2>1, <3>1 DEF AtThree
  <2>3. ParseDa1At(input, o) = None
    BY <1>3, <2>2, Da1Elsewhere
  <2>4. ParseReportAt(input, o, "4", Numbers) = None /\ ParseReportAt(input, o, "8", U16) = None
    BY <1>3, <2>2, ReportElsewhere
  <2>5. \A p \in ParserNames \ {"kgp"} :
           ParseAt(p, input, o) = None /\ \A next : Expected(p, d, next) = None
    BY <2>3, <2>4, ParseAtIs, ExpectedIs DEF ParserNames
  <2>6. z = o - 1 /\ from = 1
    BY <1>3, <1>7 DEF o
  <2>7. \A i \in 0 .. 7 : o + i <= Len(input) => input[o + i] = b[i + 1]
    <3>1. \A i \in 0 .. 7 : i + 1 \in from .. 8 /\ z + (i + 1) = o + i
      BY <1>3, <2>6
    <3>2. QED
      BY <1>2, <3>1
  <2>8. CASE o + 7 <= Len(input)
    <3>a. \A i \in 0 .. 7 : o + i <= Len(input)
      BY <1>3, <2>8
    <3>b. \A i \in 0 .. 7 : input[o + i] = b[i + 1]
      BY <2>7, <3>a
    <3>1. /\ input[o + 0] = b[0 + 1] /\ input[o + 1] = b[1 + 1] /\ input[o + 2] = b[2 + 1]
          /\ input[o + 3] = b[3 + 1] /\ input[o + 4] = b[4 + 1] /\ input[o + 5] = b[5 + 1]
          /\ input[o + 6] = b[6 + 1] /\ input[o + 7] = b[7 + 1]
      BY <3>b
    <3>2. AtThree(input, o, "ESC", "under", "G")
      BY <1>1, <1>3, <2>8, <3>1 DEF AtThree
    <3>3. /\ input[o + 3] = d.control /\ input[o + 4] = "semi" /\ input[o + 5] = d.status
          /\ input[o + 6] = "ESC" /\ input[o + 7] = "\\"
      BY <1>1, <3>1
    <3>4. ParseApcAt(input, o) = ReplyEvent(d.control, d.status, o + 8)
      <4>1. /\ input \in Seq(Alphabet) /\ o \in Nat \ {0} /\ o + 7 <= Len(input)
            /\ d.control \in Alphabet /\ d.status \in Alphabet
            /\ d.control # "ESC" /\ d.control # "semi" /\ d.status # "ESC" /\ d.status # "semi"
        BY <1>1, <1>3, <2>8
      <4> DEFINE c == d.control
                 s == d.status
      <4>a. /\ c \in Alphabet /\ s \in Alphabet
            /\ c # "ESC" /\ c # "semi" /\ s # "ESC" /\ s # "semi"
            /\ input[o + 3] = c /\ input[o + 4] = "semi" /\ input[o + 5] = s
            /\ input[o + 6] = "ESC" /\ input[o + 7] = "\\"
        BY <3>3, <4>1
      <4>b. input \in Seq(Alphabet) /\ o \in Nat \ {0} /\ o + 7 <= Len(input)
        BY <4>1
      <4> HIDE DEF c, s, o
      <4>c. ReplyHere(input, o, c, s)
        BY <3>2, <4>a, <4>b DEF ReplyHere
      <4>2. ParseApcAt(input, o) = ReplyEvent(c, s, o + 8)
        BY <4>a, <4>b, <4>c, ApcWhole
      <4>3. QED
        BY <4>2 DEF c, s
    <3>5. ReplyEvent(d.control, d.status, o + 8) # None
      BY DEF ReplyEvent, None
    <3>6. ParseAt("kgp", input, o) = Expected("kgp", d, o + 8)
      BY <3>4, <3>5, ParseAtIs, ExpectedIs
    <3>7. z + Len(b) <= Len(input) /\ z + Len(b) + 1 = o + 8
      BY <1>1, <1>3, <2>6, <2>8
    <3>8. QED
      BY <1>7, <2>5, <3>6, <3>7 DEF FoundWhole, ParserNames, o, b
  <2>9. CASE ~(o + 7 <= Len(input))
    <3>1. ASSUME NEW e \in o + 3 .. Len(input) - 1 PROVE input[e] # "ESC"
      <4>1. e - o \in 3 .. 5 /\ o + (e - o) = e /\ o + (e - o) <= Len(input)
        BY <1>3, <2>9
      <4> DEFINE i == e - o
      <4>a. i \in 0 .. 7 /\ i + 1 \in 4 .. 6 /\ o + i = e /\ o + i <= Len(input)
        BY <4>1
      <4> HIDE DEF i, o
      <4>2. input[e] = b[i + 1] /\ i + 1 \in 4 .. 6
        BY <2>7, <4>a
      <4>3. b[4] # "ESC" /\ b[5] # "ESC" /\ b[6] # "ESC"
        BY <1>1
      <4>4. QED
        BY <4>2, <4>3
    <3>2. ParseApcAt(input, o) = None
      BY <1>3, <3>1, ApcOpen
    <3>3. ParseAt("kgp", input, o) = None
      BY <2>3, <3>2, ParseAtIs
    <3>4. ~(z + Len(b) <= Len(input))
      BY <1>1, <1>3, <2>6, <2>9
    <3>5. QED
      BY <2>5, <3>3, <3>4 DEF FoundWhole, ParserNames, o, b
  <2>10. QED
    BY <2>8, <2>9
<1>8. QED
  BY <1>6, <1>7

LEMMA Da1Laid ==
    ASSUME NEW d \in Da1Reply, NEW input \in Seq(Alphabet), NEW z \in Int, NEW from \in Nat \ {0},
           z + from >= 1, Laid(input, z, from, Written(d)),
           NEW y \in from .. Len(Written(d)), z + y <= Len(input)
    PROVE  \A p \in ParserNames : FoundWhole(p, input, z, y, d)
<1> DEFINE b == Written(d)
           q == d.params
           n == Len(q)
           o == z + y
<1>1. /\ Len(b) = n + 4 /\ n \in Nat /\ q \in Seq(Parametric)
      /\ b[1] = "ESC" /\ b[2] = "[" /\ b[3] = "?"
      /\ (\A i \in 1 .. n : b[3 + i] = q[i]) /\ b[n + 4] = "c"
  BY Da1Written
<1>2. \A x \in from .. n + 4 : z + x <= Len(input) => input[z + x] = b[x]
  BY <1>1 DEF Laid
<1> HIDE DEF b
<1>3. \A i \in 1 .. n : q[i] \in Parametric
  BY <1>1, ElementOfSeq
<1> HIDE DEF q
<1>4. /\ Len(input) \in Nat /\ y \in 1 .. n + 4 /\ y \in from .. n + 4 /\ o \in Nat \ {0}
      /\ o <= Len(input)
  BY <1>1, LenProperties DEF b
<1>5. "ESC" \notin Parametric /\ "c" \notin Parametric
  BY DEF Parametric, Numbers, U16
<1> HIDE DEF n
<1>6. input[o] = b[y]
  BY <1>2, <1>4
<1> HIDE DEF o
<1>7. CASE y # 1
  <2>1. y = 2 \/ y = 3 \/ y = n + 4 \/ (y - 3 \in 1 .. n /\ 3 + (y - 3) = y)
    BY <1>1, <1>4, <1>7
  <2>2. ASSUME y - 3 \in 1 .. n /\ 3 + (y - 3) = y PROVE b[y] # "ESC"
    <3>1. b[y] = q[y - 3] /\ q[y - 3] \in Parametric
      BY <1>1, <1>3, <2>2
    <3>2. QED
      BY <1>5, <3>1
  <2>3. input[o] # "ESC"
    <3>1. b[2] # "ESC" /\ b[3] # "ESC" /\ b[n + 4] # "ESC"
      BY <1>1
    <3>2. QED
      BY <1>6, <2>1, <2>2, <3>1
  <2>4. NothingAt(input, o)
    BY <1>4, <2>3, NothingHere
  <2>5. QED
    BY <1>7, <2>4 DEF NothingAt, FoundWhole, o
<1>8. CASE y = 1
  <2>1. z = o - 1 /\ from = 1
    BY <1>4, <1>8 DEF o
  <2>2. \A i \in 0 .. n + 3 : o + i <= Len(input) => input[o + i] = b[i + 1]
    <3>1. \A i \in 0 .. n + 3 : i + 1 \in from .. n + 4 /\ z + (i + 1) = o + i
      BY <1>1, <1>4, <2>1
    <3>2. QED
      BY <1>2, <3>1
  <2>3. /\ o + 1 <= Len(input) => input[o + 1] = "["
        /\ o + 2 <= Len(input) => input[o + 2] = "?"
    <3>1. 1 \in 0 .. n + 3 /\ 2 \in 0 .. n + 3 /\ 1 + 1 = 2 /\ 2 + 1 = 3
      BY <1>1
    <3>2. QED
      BY <1>1, <2>2, <3>1
  <2>4. (\A c : ~AtThree(input, o, "ESC", "under", c)) /\ ~AtThree(input, o, "ESC", "[", "4")
        /\ ~AtThree(input, o, "ESC", "[", "8")
    <3>1. o + 2 <= Len(input) => o + 1 <= Len(input)
      BY <1>4
    <3>2. QED
      BY <2>3, <3>1 DEF AtThree
  <2>5. ParseApcAt(input, o) = None
    BY <1>4, <2>4, ApcElsewhere
  <2>6. ParseReportAt(input, o, "4", Numbers) = None /\ ParseReportAt(input, o, "8", U16) = None
    BY <1>4, <2>4, ReportElsewhere
  <2>7. /\ \A p \in {"kgp", "sixel"} : ParseAt(p, input, o) = ParseDa1At(input, o)
        /\ \A p \in {"pixels", "cells"} :
             ParseAt(p, input, o) = None /\ \A next : Expected(p, d, next) = None
    BY <2>5, <2>6, ParseAtIs, ExpectedIs
  <2>8. CASE o + n + 3 <= Len(input)
    <3>1. AtThree(input, o, "ESC", "[", "?")
      <4>1. o + 1 <= Len(input) /\ o + 2 <= Len(input)
        BY <1>1, <1>4, <2>8
      <4>2. QED
        BY <1>1, <1>6, <1>8, <2>3, <4>1 DEF AtThree
    <3>2. ASSUME NEW i \in 1 .. n PROVE input[o + 2 + i] = q[i]
      <4>1. i + 2 \in 0 .. n + 3 /\ o + (i + 2) = o + 2 + i /\ o + (i + 2) <= Len(input)
            /\ (i + 2) + 1 = 3 + i
        BY <1>1, <1>4, <2>8
      <4>2. input[o + (i + 2)] = b[(i + 2) + 1]
        BY <2>2, <4>1
      <4>3. QED
        BY <1>1, <4>1, <4>2
    <3>3. input[o + 3 + n] = "c"
      <4>1. n + 3 \in 0 .. n + 3 /\ o + (n + 3) = o + 3 + n /\ o + (n + 3) <= Len(input)
            /\ (n + 3) + 1 = n + 4
        BY <1>1, <1>4, <2>8
      <4>2. QED
        BY <1>1, <2>2, <4>1
    <3>4. o + 3 + n <= Len(input)
      BY <1>1, <1>4, <2>8
    <3>5. ParseDa1At(input, o) = IF Sound(q) THEN BarrierEvent(q, o + 4 + n) ELSE None
      BY <1>1, <1>4, <3>1, <3>2, <3>3, <3>4, Da1Whole DEF n
    <3>6. z + Len(b) <= Len(input) /\ z + Len(b) + 1 = o + 4 + n
      BY <1>1, <1>4, <2>1, <2>8
    <3>7. \A p \in {"kgp", "sixel"} : ParseAt(p, input, o) = Expected(p, d, o + 4 + n)
      BY <2>7, <3>5, ExpectedIs DEF q
    <3>8. QED
      BY <1>8, <2>7, <3>6, <3>7 DEF FoundWhole, ParserNames, o, b
  <2>9. CASE ~(o + n + 3 <= Len(input))
    <3>1. ASSUME NEW e \in o + 3 .. Len(input) PROVE input[e] \in Parametric
      <4>1. /\ e - o \in 0 .. n + 3 /\ o + (e - o) = e /\ o + (e - o) <= Len(input)
            /\ e - o - 2 \in 1 .. n /\ (e - o) + 1 = 3 + (e - o - 2)
        BY <1>1, <1>4, <2>9
      <4>2. input[e] = b[3 + (e - o - 2)]
        BY <2>2, <4>1
      <4>3. QED
        BY <1>1, <1>3, <4>1, <4>2
    <3>2. ParseDa1At(input, o) = None
      BY <1>4, <3>1, Da1Open
    <3>3. ~(z + Len(b) <= Len(input))
      BY <1>1, <1>4, <2>1, <2>9
    <3>4. QED
      BY <2>7, <3>2, <3>3 DEF FoundWhole, ParserNames, o, b
  <2>10. QED
    BY <2>8, <2>9
<1>9. QED
  BY <1>7, <1>8

LEMMA ReportLaid ==
    ASSUME NEW d \in Report, NEW input \in Seq(Alphabet), NEW z \in Int, NEW from \in Nat \ {0},
           z + from >= 1, Laid(input, z, from, Written(d)),
           NEW y \in from .. Len(Written(d)), z + y <= Len(input)
    PROVE  \A p \in ParserNames : FoundWhole(p, input, z, y, d)
<1> DEFINE b == Written(d)
           h == d.size[1]
           w == d.size[2]
           o == z + y
<1>1. /\ Len(b) = 8 /\ d.code \in {"4", "8"} /\ h \in Numbers /\ w \in Numbers
      /\ b[1] = "ESC" /\ b[2] = "[" /\ b[3] = d.code /\ b[4] = "semi" /\ b[5] = h
      /\ b[6] = "semi" /\ b[7] = w /\ b[8] = "t"
  BY ReportWritten
<1>2. \A x \in from .. 8 : z + x <= Len(input) => input[z + x] = b[x]
  BY <1>1 DEF Laid
<1> HIDE DEF b, h, w
<1>3. Len(input) \in Nat /\ y \in 1 .. 8 /\ y \in from .. 8 /\ o \in Nat \ {0} /\ o <= Len(input)
  BY <1>1, LenProperties DEF b
<1>4. h # "ESC" /\ w # "ESC" /\ h # "t" /\ w # "t" /\ h \in Alphabet /\ w \in Alphabet
      /\ "semi" \in Alphabet
  BY <1>1 DEF Numbers, U16, Alphabet
<1>5. input[o] = b[y]
  BY <1>2, <1>3
<1> HIDE DEF o
<1>6. CASE y # 1
  <2>1. b[y] # "ESC"
    BY <1>1, <1>3, <1>4, <1>6
  <2>2. NothingAt(input, o)
    BY <1>3, <1>5, <2>1, NothingHere
  <2>3. QED
    BY <1>6, <2>2 DEF NothingAt, FoundWhole, o
<1>7. CASE y = 1
  <2>1. z = o - 1 /\ from = 1
    BY <1>3, <1>7 DEF o
  <2>2. \A i \in 0 .. 7 : o + i <= Len(input) => input[o + i] = b[i + 1]
    <3>1. \A i \in 0 .. 7 : i + 1 \in from .. 8 /\ z + (i + 1) = o + i
      BY <1>3, <2>1
    <3>2. QED
      BY <1>2, <3>1
  <2>3. /\ o + 1 <= Len(input) => input[o + 1] = "["
        /\ o + 2 <= Len(input) => input[o + 2] = d.code
    <3>1. 1 \in 0 .. 7 /\ 2 \in 0 .. 7 /\ 1 + 1 = 2 /\ 2 + 1 = 3
      OBVIOUS
    <3>2. QED
      BY <1>1, <2>2, <3>1
  <2>4. /\ \A c : ~AtThree(input, o, "ESC", "under", c)
        /\ ~AtThree(input, o, "ESC", "[", "?")
        /\ \A c : c # d.code => ~AtThree(input, o, "ESC", "[", c)
    <3>1. (o + 2 <= Len(input) => o + 1 <= Len(input)) /\ d.code # "?"
      BY <1>1, <1>3
    <3>2. QED
      BY <2>3, <3>1 DEF AtThree
  <2>5. ParseApcAt(input, o) = None /\ ParseDa1At(input, o) = None
    BY <1>3, <2>4, ApcElsewhere, Da1Elsewhere
  <2>6. \A p \in {"kgp", "sixel"} : ParseAt(p, input, o) = None /\ \A next : Expected(p, d, next) = None
    BY <2>5, ParseAtIs, ExpectedReport
  <2> DEFINE limit(p) == IF p = "pixels" THEN Numbers ELSE U16
  <2>7. \A p \in {"pixels", "cells"} : ParseAt(p, input, o) = ParseReportAt(input, o, Code(p), limit(p))
    BY ParseAtIs DEF Code
  <2>8. \A p : Fits(p) = limit(p) \cap Positive
    BY DEF Fits
  <2> HIDE DEF limit
  <2>9. ASSUME NEW p \in {"pixels", "cells"} PROVE FoundWhole(p, input, z, y, d)
    <3>1. CASE d.code # Code(p)
      <4>1. ParseReportAt(input, o, Code(p), limit(p)) = None
        BY <1>3, <2>4, <3>1, ReportElsewhere
      <4>2. \A next : Expected(p, d, next) = None
        BY <3>1, ExpectedReport
      <4>3. QED
        BY <2>7, <4>1, <4>2 DEF FoundWhole, o
    <3>2. CASE d.code = Code(p) /\ o + 7 <= Len(input)
      <4>1. /\ input[o + 0] = b[0 + 1] /\ input[o + 1] = b[1 + 1] /\ input[o + 2] = b[2 + 1]
            /\ input[o + 3] = b[3 + 1] /\ input[o + 4] = b[4 + 1] /\ input[o + 5] = b[5 + 1]
            /\ input[o + 6] = b[6 + 1] /\ input[o + 7] = b[7 + 1]
        <5>1. \A i \in 0 .. 7 : o + i <= Len(input)
          BY <1>3, <3>2
        <5>2. \A i \in 0 .. 7 : input[o + i] = b[i + 1]
          BY <2>2, <5>1
        <5>3. QED
          BY <5>2
      <4>2. AtThree(input, o, "ESC", "[", Code(p))
        BY <1>1, <1>3, <3>2, <4>1 DEF AtThree
      <4>3. /\ input[o + 3] = "semi" /\ input[o + 4] = h /\ input[o + 5] = "semi"
            /\ input[o + 6] = w /\ input[o + 7] = "t"
        BY <1>1, <4>1
      <4>4. ParseReportAt(input, o, Code(p), limit(p)) =
              IF {h, w} \subseteq limit(p) \cap Positive
              THEN ReportEvent(Code(p), h, w, o + 8) ELSE None
        <5> DEFINE l == limit(p)
                   c == Code(p)
        <5>1. AtThree(input, o, "ESC", "[", c)
          BY <4>2
        <5> HIDE DEF l, c
        <5>2. o + 7 <= Len(input)
          BY <3>2
        <5>3. ParseReportAt(input, o, c, l) =
                IF {input[o + 4], input[o + 6]} \subseteq l \cap Positive
                THEN ReportEvent(c, input[o + 4], input[o + 6], o + 8) ELSE None
          BY <1>3, <1>4, <4>3, <5>1, <5>2, ReportWhole
        <5>4. QED
          BY <4>3, <5>3 DEF l, c
      <4>5. Expected(p, d, o + 8) =
              IF {h, w} \subseteq Fits(p) THEN ReportEvent(d.code, h, w, o + 8) ELSE None
        BY <3>2, ExpectedReport DEF h, w
      <4>6. ParseAt(p, input, o) = Expected(p, d, o + 8)
        BY <2>7, <2>8, <3>2, <4>4, <4>5
      <4>7. z + Len(b) <= Len(input) /\ z + Len(b) + 1 = o + 8
        BY <1>1, <1>3, <2>1, <3>2
      <4>8. QED
        BY <1>7, <4>6, <4>7 DEF FoundWhole, o, b
    <3>3. CASE ~(o + 7 <= Len(input))
      <4>1. ASSUME NEW e \in o + 4 .. Len(input) PROVE input[e] # "t"
        <5>1. e - o \in 4 .. 6 /\ o + (e - o) = e /\ o + (e - o) <= Len(input)
          BY <1>3, <3>3
        <5>2. input[e] = b[(e - o) + 1] /\ (e - o) + 1 \in 5 .. 7
          BY <2>2, <5>1
        <5>3. b[5] # "t" /\ b[6] # "t" /\ b[7] # "t"
          BY <1>1, <1>4
        <5>4. QED
          BY <5>2, <5>3
      <4>2. ParseReportAt(input, o, Code(p), limit(p)) = None
        BY <1>3, <4>1, ReportOpen
      <4>3. ~(z + Len(b) <= Len(input))
        BY <1>1, <1>3, <2>1, <3>3
      <4>4. QED
        BY <2>7, <4>2, <4>3 DEF FoundWhole, o, b
    <3>4. QED
      BY <3>1, <3>2, <3>3
  <2>10. ASSUME NEW p \in {"kgp", "sixel"} PROVE FoundWhole(p, input, z, y, d)
    BY <2>6 DEF FoundWhole, o
  <2>11. QED
    BY <2>9, <2>10 DEF ParserNames
<1>8. QED
  BY <1>6, <1>7

-----------------------------------------------------------------------------
(* The stream: segment after segment.                                      *)

Keys == [t : {"key"}, key : KeyInput]
AnyReply == KgpReply \cup Da1Reply \cup Report

(* Every reply but the first is whole, and so is every key. *)
SegmentOK(s, first) ==
    /\ s.d \in AnyReply \cup Keys
    /\ s.from \in 1 .. Len(Written(s.d)) + 1
    /\ s.bytes = SubSeq(Written(s.d), s.from, Len(Written(s.d)))
    /\ s.from = 1 \/ (first /\ s.d \in AnyReply)

Sent(segs) ==
    /\ Len(segs) \in Nat /\ DOMAIN segs = 1 .. Len(segs)
    /\ \A i \in 1 .. Len(segs) : SegmentOK(segs[i], i = 1)

BytesOf(segs) == [i \in 1 .. Len(segs) |-> segs[i].bytes]
End(segs, k) == Len(Flat(BytesOf(segs), k))

LEMMA WrittenType ==
    ASSUME NEW d \in AnyReply \cup Keys
    PROVE  Written(d) \in Seq(Alphabet) /\ Len(Written(d)) \in Nat
           /\ (d \in AnyReply => Written(d)[1] = "ESC")
<1>1. Written(d) \in Seq(Alphabet) /\ (d \in AnyReply => Written(d)[1] = "ESC")
  <2>1. CASE d \in KgpReply
    BY <2>1, KgpWritten
  <2>2. CASE d \in Da1Reply
    BY <2>2, Da1Written
  <2>3. CASE d \in Report
    BY <2>3, ReportWritten
  <2>4. CASE d \in Keys /\ d \notin AnyReply
    BY <2>4, KeyWritten DEF Keys
  <2>5. QED
    BY <2>1, <2>2, <2>3, <2>4 DEF AnyReply
<1>2. QED
  BY <1>1, LenProperties

LEMMA SegmentIs ==
    ASSUME NEW s, NEW first, SegmentOK(s, first)
    PROVE  LET w == Written(s.d) IN
           /\ s.bytes \in Seq(Alphabet) /\ Len(s.bytes) \in Nat
           /\ w \in Seq(Alphabet) /\ Len(w) \in Nat /\ s.from \in Nat \ {0}
           /\ Len(s.bytes) = Len(w) - s.from + 1
           /\ \A x \in 1 .. Len(s.bytes) : s.bytes[x] = w[s.from + x - 1]
<1> DEFINE w == Written(s.d)
           f == s.from
<1>1. /\ w \in Seq(Alphabet) /\ Len(w) \in Nat /\ f \in 1 .. Len(w) + 1
      /\ s.bytes = SubSeq(w, f, Len(w))
  BY WrittenType DEF SegmentOK
<1> HIDE DEF w, f
<1>2. f \in Int /\ Len(w) \in Int /\ \A i \in f .. Len(w) : w[i] \in Alphabet
  <2>1. \A i \in f .. Len(w) : i \in 1 .. Len(w)
    BY <1>1
  <2>2. QED
    BY <1>1, <2>1, ElementOfSeq
<1>3. /\ s.bytes \in Seq(Alphabet)
      /\ Len(s.bytes) = IF f <= Len(w) THEN Len(w) - f + 1 ELSE 0
      /\ \A i \in 1 .. Len(w) - f + 1 : s.bytes[i] = w[f + i - 1]
  BY <1>1, <1>2, SubSeqProperties
<1>4. Len(s.bytes) = Len(w) - f + 1
  BY <1>1, <1>3
<1>5. QED
  BY <1>1, <1>3, <1>4 DEF w, f

LEMMA SentIs ==
    ASSUME NEW segs, Sent(segs)
    PROVE  /\ BytesOf(segs) \in Seq(Seq(Alphabet)) /\ Len(BytesOf(segs)) = Len(segs)
           /\ Stream(segs) = FlattenSeq(BytesOf(segs))
           /\ Stream(segs) \in Seq(Alphabet) /\ Len(Stream(segs)) \in Nat
           /\ End(segs, 0) = 0 /\ End(segs, Len(segs)) = Len(Stream(segs))
<1>1. Len(segs) \in Nat /\ DOMAIN segs = 1 .. Len(segs)
  BY DEF Sent
<1>2. \A i \in 1 .. Len(segs) : segs[i].bytes \in Seq(Alphabet)
  BY SegmentIs DEF Sent
<1>3. BytesOf(segs) \in Seq(Seq(Alphabet)) /\ Len(BytesOf(segs)) = Len(segs)
  BY <1>1, <1>2 DEF BytesOf
<1>4. Stream(segs) = FlattenSeq(BytesOf(segs))
  BY <1>1 DEF Stream, BytesOf
<1>5. Stream(segs) \in Seq(Alphabet) /\ Len(Stream(segs)) \in Nat
  BY <1>3, <1>4, FlattenType, LenProperties
<1>6. End(segs, 0) = 0
  BY <1>3, FlatIs, EmptySeq DEF End
<1>7. End(segs, Len(segs)) = Len(Stream(segs))
  BY <1>3, <1>4, FlatIs DEF End
<1>8. QED
  BY <1>3, <1>4, <1>5, <1>6, <1>7

LEMMA SegmentAt ==
    ASSUME NEW segs, Sent(segs), NEW k \in Nat, k < Len(segs)
    PROVE  LET s == segs[k + 1] IN
           /\ SegmentOK(s, k = 0) /\ Len(s.bytes) \in Nat
           /\ End(segs, k) \in Nat /\ End(segs, k + 1) = End(segs, k) + Len(s.bytes)
           /\ End(segs, k + 1) <= Len(Stream(segs))
           /\ \A i \in 1 .. Len(s.bytes) : Stream(segs)[End(segs, k) + i] = s.bytes[i]
<1>1. k + 1 \in 1 .. Len(segs)
  BY DEF Sent
<1>2. SegmentOK(segs[k + 1], k = 0)
  <2>1. SegmentOK(segs[k + 1], k + 1 = 1)
    BY <1>1 DEF Sent
  <2>2. (k + 1 = 1) = (k = 0)
    OBVIOUS
  <2>3. QED
    BY <2>1, <2>2
<1>3. BytesOf(segs)[k + 1] = segs[k + 1].bytes
  BY <1>1 DEF BytesOf
<1>4. LET b == Len(Flat(BytesOf(segs), k)) IN
      /\ b \in Nat /\ Len(BytesOf(segs)[k + 1]) \in Nat
      /\ Len(Flat(BytesOf(segs), k + 1)) = b + Len(BytesOf(segs)[k + 1])
      /\ b + Len(BytesOf(segs)[k + 1]) <= Len(FlattenSeq(BytesOf(segs)))
      /\ \A i \in 1 .. Len(BytesOf(segs)[k + 1]) :
           FlattenSeq(BytesOf(segs))[b + i] = BytesOf(segs)[k + 1][i]
  BY SentIs, PieceAt
<1>5. Stream(segs) = FlattenSeq(BytesOf(segs))
  BY SentIs
<1>6. QED
  BY <1>2, <1>3, <1>4, <1>5 DEF End

LEMMA EndsGrow ==
    ASSUME NEW segs, Sent(segs)
    PROVE  /\ \A k \in Nat : k <= Len(segs) => End(segs, k) \in Nat
           /\ \A j \in Nat : \A k \in Nat : j <= k /\ k <= Len(segs) => End(segs, j) <= End(segs, k)
<1>1. Len(segs) \in Nat
  BY DEF Sent
<1>2. \A k \in Nat : k < Len(segs) => End(segs, k) \in Nat /\ End(segs, k + 1) \in Nat
                                      /\ End(segs, k) <= End(segs, k + 1)
  BY SegmentAt
<1>3. \A k \in Nat : k <= Len(segs) => End(segs, k) \in Nat
  BY <1>1, <1>2, SentIs
<1>4. ASSUME NEW j \in Nat
      PROVE  \A k \in Nat : j <= k /\ k <= Len(segs) => End(segs, j) <= End(segs, k)
  <2> DEFINE S == {k \in Nat : j <= k /\ k <= Len(segs) => End(segs, j) <= End(segs, k)}
  <2>1. 0 \in S
    BY <1>3
  <2>2. ASSUME NEW k \in Nat, k \in S PROVE k + 1 \in S
    <3> SUFFICES ASSUME j <= k + 1, k + 1 <= Len(segs) PROVE End(segs, j) <= End(segs, k + 1)
      OBVIOUS
    <3>1. CASE j = k + 1
      BY <1>3, <3>1
    <3>2. CASE j <= k
      <4>1. k < Len(segs) /\ k <= Len(segs) /\ j <= Len(segs)
        BY <1>1, <3>2
      <4>2. End(segs, j) <= End(segs, k)
        BY <2>2, <3>2, <4>1
      <4>3. QED
        BY <1>2, <1>3, <4>1, <4>2
    <3>3. QED
      BY <3>1, <3>2
  <2> HIDE DEF S
  <2>3. \A k \in Nat : k \in S
    BY <2>1, <2>2, Induction
  <2>4. QED
    BY <2>3 DEF S
<1>5. QED
  BY <1>3, <1>4

(* What has been read of a stream. *)
LEMMA ReadIs ==
    ASSUME NEW segs, Sent(segs), NEW r \in 0 .. Len(Stream(segs))
    PROVE  LET input == SubSeq(Stream(segs), 1, r) IN
           /\ input \in Seq(Alphabet) /\ Len(input) = r
           /\ \A i \in 1 .. r : input[i] = Stream(segs)[i]
<1> DEFINE s == Stream(segs)
<1>1. s \in Seq(Alphabet) /\ Len(s) \in Nat
  BY SentIs
<1>2. r \in Int /\ \A i \in 1 .. r : i \in 1 .. Len(s)
  BY <1>1
<1> HIDE DEF s
<1>3. \A i \in 1 .. r : s[i] \in Alphabet
  BY <1>1, <1>2, ElementOfSeq
<1>4. /\ SubSeq(s, 1, r) \in Seq(Alphabet)
      /\ Len(SubSeq(s, 1, r)) = IF 1 <= r THEN r - 1 + 1 ELSE 0
      /\ \A i \in 1 .. r - 1 + 1 : SubSeq(s, 1, r)[i] = s[1 + i - 1]
  BY <1>2, <1>3, SubSeqProperties
<1>5. r \in Nat /\ r - 1 + 1 = r /\ \A i \in 1 .. r : 1 + i - 1 = i
  BY <1>1 DEF s
<1>6. QED
  BY <1>4, <1>5 DEF s

(* Where a parser finds an event when the first r bytes have been read: at *)
(* the first byte of a segment that has been read whole.                   *)
Spot(p, segs, r, k, x) ==
    ParseAt(p, SubSeq(Stream(segs), 1, r), End(segs, k) + x) =
      IF x = 1 /\ segs[k + 1].from = 1 /\ End(segs, k + 1) <= r
      THEN Expected(p, segs[k + 1].d, End(segs, k + 1) + 1) ELSE None

LEMMA ReplySpot ==
    ASSUME NEW segs, Sent(segs), NEW r \in 0 .. Len(Stream(segs)), NEW k \in Nat, k < Len(segs),
           segs[k + 1].d \in AnyReply,
           NEW x \in 1 .. Len(segs[k + 1].bytes), End(segs, k) + x <= r
    PROVE  \A p \in ParserNames : Spot(p, segs, r, k, x)
<1> DEFINE s == segs[k + 1]
           d == s.d
           b == s.bytes
           w == Written(d)
           f == s.from
           e == End(segs, k)
           z == e - f + 1
           y == f + x - 1
           input == SubSeq(Stream(segs), 1, r)
<1>1. /\ SegmentOK(s, k = 0) /\ Len(b) \in Nat /\ e \in Nat /\ End(segs, k + 1) = e + Len(b)
      /\ e + Len(b) <= Len(Stream(segs))
      /\ \A i \in 1 .. Len(b) : Stream(segs)[e + i] = b[i]
  BY SegmentAt
<1>2. /\ w \in Seq(Alphabet) /\ Len(w) \in Nat /\ f \in Nat \ {0}
      /\ Len(b) = Len(w) - f + 1 /\ \A i \in 1 .. Len(b) : b[i] = w[f + i - 1]
  BY <1>1, SegmentIs
<1>3. /\ input \in Seq(Alphabet) /\ Len(input) = r /\ r \in Nat
      /\ \A i \in 1 .. r : input[i] = Stream(segs)[i]
  BY ReadIs, SentIs
<1>4. d \in AnyReply /\ x \in 1 .. Len(b) /\ e + x <= r
  OBVIOUS
<1> HIDE DEF s, d, b, w, f, e, input
<1>5. /\ z \in Int /\ z + f >= 1 /\ y \in f .. Len(w) /\ z + y = e + x /\ z + y <= Len(input)
      /\ z + Len(w) = e + Len(b) /\ (y = 1 <=> x = 1 /\ f = 1)
  <2>1. /\ e \in Nat /\ f \in Nat \ {0} /\ Len(w) \in Nat /\ Len(b) = Len(w) - f + 1
        /\ x \in 1 .. Len(b) /\ e + x <= Len(input) /\ Len(input) \in Nat
    BY <1>1, <1>2, <1>3, <1>4
  <2> DEFINE n == Len(w)
             l == Len(b)
             m == Len(input)
  <2> HIDE DEF n, l, m
  <2>2. /\ e \in Nat /\ f \in Nat \ {0} /\ n \in Nat /\ l = n - f + 1
        /\ x \in 1 .. l /\ e + x <= m /\ m \in Nat
    BY <2>1 DEF n, l, m
  <2>3. /\ z \in Int /\ z + f >= 1 /\ y \in f .. n /\ z + y = e + x /\ z + y <= m
        /\ z + n = e + l /\ (y = 1 <=> x = 1 /\ f = 1)
    BY <2>2
  <2>4. QED
    BY <2>3 DEF n, l, m
<1>6. Laid(input, z, f, w)
  <2>1. ASSUME NEW v \in f .. Len(w), z + v <= Len(input) PROVE input[z + v] = w[v]
    <3> DEFINE i == v - f + 1
    <3>1. i \in 1 .. Len(b) /\ e + i = z + v /\ z + v \in 1 .. r /\ f + i - 1 = v
      BY <1>1, <1>2, <1>3, <2>1
    <3> HIDE DEF i
    <3>2. Stream(segs)[e + i] = b[i] /\ b[i] = w[f + i - 1]
      BY <1>1, <1>2, <3>1
    <3>3. QED
      BY <1>3, <3>1, <3>2
  <2>2. QED
    BY <2>1 DEF Laid
<1> HIDE DEF z, y
<1>7. \A p \in ParserNames : FoundWhole(p, input, z, y, d)
  <2>1. CASE d \in KgpReply
    BY <1>2, <1>3, <1>5, <1>6, <2>1, KgpLaid DEF w
  <2>2. CASE d \in Da1Reply
    BY <1>2, <1>3, <1>5, <1>6, <2>2, Da1Laid DEF w
  <2>3. CASE d \in Report
    BY <1>2, <1>3, <1>5, <1>6, <2>3, ReportLaid DEF w
  <2>4. QED
    BY <1>4, <2>1, <2>2, <2>3 DEF AnyReply
<1>8. ASSUME NEW p \in ParserNames PROVE Spot(p, segs, r, k, x)
  <2>1. ParseAt(p, input, z + y) =
          IF y = 1 /\ z + Len(w) <= Len(input) THEN Expected(p, d, z + Len(w) + 1) ELSE None
    BY <1>7 DEF FoundWhole, w
  <2>2. ParseAt(p, input, e + x) =
          IF x = 1 /\ f = 1 /\ End(segs, k + 1) <= r
          THEN Expected(p, d, End(segs, k + 1) + 1) ELSE None
    BY <1>1, <1>3, <1>5, <2>1
  <2>3. QED
    BY <2>2 DEF Spot, e, input, f, d, s
<1>9. QED
  BY <1>8

(* The place of a byte of a key. *)
InKey(segs, o) ==
    \E k \in Nat : /\ k < Len(segs) /\ segs[k + 1].d \in Keys
                   /\ End(segs, k) < o /\ o <= End(segs, k + 1)

LEMMA KeysAreWhole ==
    ASSUME NEW s, NEW first, SegmentOK(s, first), s.d \in Keys
    PROVE  s.from = 1
<1>1. s.d.t = "key"
  BY DEF Keys
<1>2. s.d \notin AnyReply
  BY <1>1 DEF AnyReply, KgpReply, Da1Reply, Report
<1>3. QED
  BY <1>2 DEF SegmentOK

LEMMA KeyToken ==
    ASSUME NEW segs, Sent(segs), NEW o \in Nat, InKey(segs, o)
    PROVE  LET x == Stream(segs)[o] IN x # "under" /\ x # "?" /\ x # "semi"
<1>1. PICK k \in Nat : /\ k < Len(segs) /\ segs[k + 1].d \in Keys
                       /\ End(segs, k) < o /\ o <= End(segs, k + 1)
  BY DEF InKey
<1>a. k < Len(segs)
  BY <1>1
<1> DEFINE s == segs[k + 1]
           w == Written(s.d)
           e == End(segs, k)
<1>2. /\ SegmentOK(s, k = 0) /\ Len(s.bytes) \in Nat /\ e \in Nat
      /\ End(segs, k + 1) = e + Len(s.bytes)
      /\ \A i \in 1 .. Len(s.bytes) : Stream(segs)[e + i] = s.bytes[i]
  BY <1>a, SegmentAt
<1>3. s.from = 1
  <2> DEFINE first == k = 0
  <2>1. SegmentOK(s, first) /\ s.d \in Keys
    BY <1>1, <1>2
  <2> HIDE DEF s, first
  <2>2. QED
    BY <2>1, KeysAreWhole
<1>4. /\ Len(w) \in Nat /\ Len(s.bytes) = Len(w) - s.from + 1
      /\ \A x \in 1 .. Len(s.bytes) : s.bytes[x] = w[s.from + x - 1]
  BY <1>2, SegmentIs
<1>5. \A i \in 1 .. Len(w) : w[i] # "under" /\ w[i] # "?" /\ w[i] # "semi"
  BY <1>1, KeyWritten DEF Keys
<1> HIDE DEF s, w, e
<1>6. o - e \in 1 .. Len(s.bytes) /\ e + (o - e) = o
  BY <1>1, <1>2 DEF e
<1>7. Stream(segs)[o] = s.bytes[o - e] /\ s.bytes[o - e] = w[s.from + (o - e) - 1]
  BY <1>2, <1>4, <1>6
<1>8. s.from + (o - e) - 1 \in 1 .. Len(w)
  BY <1>3, <1>4, <1>6
<1>9. QED
  BY <1>5, <1>7, <1>8

(* After a byte of a key comes another, or a reply begins. *)
LEMMA KeyNext ==
    ASSUME NEW segs, Sent(segs), NEW o \in Nat, InKey(segs, o), o + 1 <= Len(Stream(segs))
    PROVE  Stream(segs)[o + 1] = "ESC" \/ InKey(segs, o + 1)
<1>1. PICK k \in Nat : /\ k < Len(segs) /\ segs[k + 1].d \in Keys
                       /\ End(segs, k) < o /\ o <= End(segs, k + 1)
  BY DEF InKey
<1>2. /\ End(segs, k) \in Nat /\ End(segs, k + 1) \in Nat /\ Len(segs) \in Nat
      /\ Len(Stream(segs)) \in Nat
  <2>1. Len(segs) \in Nat
    BY DEF Sent
  <2>2. k <= Len(segs) /\ k + 1 \in Nat /\ k + 1 <= Len(segs)
    BY <1>1, <2>1
  <2>3. \A i \in Nat : i <= Len(segs) => End(segs, i) \in Nat
    BY EndsGrow
  <2>4. QED
    BY <2>1, <2>2, <2>3, SentIs
<1>3. CASE o < End(segs, k + 1)
  <2>1. End(segs, k) < o + 1 /\ o + 1 <= End(segs, k + 1)
    BY <1>1, <1>2, <1>3
  <2>2. QED
    BY <1>1, <2>1 DEF InKey
<1>4. CASE o = End(segs, k + 1)
  <2>1. PICK j \in Nat : j < Len(segs) /\ End(segs, j) < o + 1 /\ o + 1 <= End(segs, j + 1)
    <3>1. o + 1 \in 1 .. Len(FlattenSeq(BytesOf(segs)))
      BY SentIs
    <3>2. BytesOf(segs) \in Seq(Seq(Alphabet)) /\ Len(BytesOf(segs)) = Len(segs)
      BY SentIs
    <3>3. QED
      BY <3>1, <3>2, InAPiece DEF End
  <2>2. End(segs, j) \in Nat /\ End(segs, j + 1) \in Nat
    BY <1>2, <2>1, EndsGrow
  <2>3. k + 1 <= j
    <3>1. ASSUME j + 1 <= k + 1 PROVE FALSE
      <4>1. End(segs, j + 1) <= End(segs, k + 1)
        BY <1>1, <1>2, <3>1, EndsGrow
      <4>2. QED
        BY <1>2, <1>4, <2>1, <2>2, <4>1
    <3>2. QED
      BY <3>1
  <2>4. End(segs, j) = o
    <3>1. End(segs, k + 1) <= End(segs, j)
      BY <1>1, <1>2, <2>1, <2>3, EndsGrow
    <3>2. QED
      BY <1>2, <1>4, <2>1, <2>2, <3>1
  <2> DEFINE s == segs[j + 1]
             w == Written(s.d)
  <2>5. /\ SegmentOK(s, j = 0) /\ Len(s.bytes) \in Nat
        /\ End(segs, j + 1) = End(segs, j) + Len(s.bytes)
        /\ \A i \in 1 .. Len(s.bytes) : Stream(segs)[End(segs, j) + i] = s.bytes[i]
    BY <2>1, SegmentAt
  <2>6. s.from = 1 /\ s.d \in AnyReply \cup Keys
    BY <2>3, <2>5 DEF SegmentOK
  <2>7. \A x \in 1 .. Len(s.bytes) : s.bytes[x] = w[s.from + x - 1]
    BY <2>5, SegmentIs
  <2>8. CASE s.d \in Keys
    <3>1. End(segs, j) < o + 1
      BY <2>1
    <3>2. QED
      BY <2>1, <2>8, <3>1 DEF InKey
  <2>9. CASE s.d \in AnyReply
    <3>1. w[1] = "ESC"
      BY <2>9, WrittenType
    <3> HIDE DEF s, w
    <3>2. 1 \in 1 .. Len(s.bytes) /\ s.from + 1 - 1 = 1
      BY <2>1, <2>2, <2>4, <2>5, <2>6
    <3>3. Stream(segs)[o + 1] = s.bytes[1] /\ s.bytes[1] = w[1]
      BY <2>4, <2>5, <2>7, <3>2
    <3>4. QED
      BY <3>1, <3>3
  <2>10. QED
    BY <2>6, <2>8, <2>9
<1>5. QED
  BY <1>1, <1>2, <1>3, <1>4

LEMMA NothingInKey ==
    ASSUME NEW segs, Sent(segs), NEW r \in 0 .. Len(Stream(segs)), NEW o \in Nat, InKey(segs, o),
           o <= r
    PROVE  NothingAt(SubSeq(Stream(segs), 1, r), o)
<1> DEFINE input == SubSeq(Stream(segs), 1, r)
<1>1. /\ Len(input) = r /\ r \in Nat /\ r <= Len(Stream(segs)) /\ Len(Stream(segs)) \in Nat
      /\ \A i \in 1 .. r : input[i] = Stream(segs)[i]
  BY ReadIs, SentIs
<1> HIDE DEF input
<1>2. ASSUME NEW i \in Nat, InKey(segs, i), i + 1 <= r
      PROVE  /\ input[i + 1] # "under" /\ input[i + 1] # "?" /\ input[i + 1] # "semi"
             /\ input[i + 1] = "ESC" \/ InKey(segs, i + 1)
  <2>1. i + 1 \in 1 .. r /\ i + 1 \in Nat /\ i + 1 <= Len(Stream(segs))
    BY <1>1, <1>2
  <2>2. input[i + 1] = Stream(segs)[i + 1]
    BY <1>1, <2>1
  <2>3. Stream(segs)[i + 1] = "ESC" \/ InKey(segs, i + 1)
    BY <1>2, <2>1, KeyNext
  <2>4. InKey(segs, i + 1) => input[i + 1] # "under" /\ input[i + 1] # "?" /\ input[i + 1] # "semi"
    BY <2>1, <2>2, KeyToken
  <2>5. QED
    BY <2>2, <2>3, <2>4
<1>3. o + 1 <= r => input[o + 1] # "under" /\ (input[o + 1] = "ESC" \/ InKey(segs, o + 1))
  BY <1>2
<1>4. o + 2 <= r /\ InKey(segs, o + 1) =>
        input[o + 2] # "?" /\ (input[o + 2] = "ESC" \/ InKey(segs, o + 2))
  <2>1. o + 1 \in Nat /\ (o + 1) + 1 = o + 2
    OBVIOUS
  <2>2. QED
    BY <1>2, <2>1
<1>5. o + 3 <= r /\ InKey(segs, o + 2) => input[o + 3] # "semi"
  <2>1. o + 2 \in Nat /\ (o + 2) + 1 = o + 3
    OBVIOUS
  <2>2. QED
    BY <1>2, <2>1
<1>6. (o + 2 <= r => o + 1 <= r) /\ (o + 3 <= r => o + 2 <= r)
  BY <1>1
<1>7. \A c : ~AtThree(input, o, "ESC", "under", c)
  BY <1>1, <1>3, <1>6 DEF AtThree
<1>8. ~AtThree(input, o, "ESC", "[", "?")
  BY <1>1, <1>3, <1>4, <1>6 DEF AtThree
<1>9. \A c \in {"4", "8"} :
        ~(o + 3 <= Len(input) /\ AtThree(input, o, "ESC", "[", c) /\ input[o + 3] = "semi")
  BY <1>1, <1>3, <1>4, <1>5, <1>6 DEF AtThree
<1>10. ParseApcAt(input, o) = None /\ ParseDa1At(input, o) = None
  BY <1>1, <1>7, <1>8, ApcElsewhere, Da1Elsewhere
<1>11. ParseReportAt(input, o, "4", Numbers) = None /\ ParseReportAt(input, o, "8", U16) = None
  BY <1>1, <1>9, ReportElsewhere
<1>12. QED
  BY <1>10, <1>11, NothingIs DEF input

LEMMA SpotIs ==
    ASSUME NEW segs, Sent(segs), NEW r \in 0 .. Len(Stream(segs)), NEW k \in Nat, k < Len(segs),
           NEW x \in 1 .. Len(segs[k + 1].bytes), End(segs, k) + x <= r
    PROVE  \A p \in ParserNames : Spot(p, segs, r, k, x)
<1>1. /\ SegmentOK(segs[k + 1], k = 0) /\ Len(segs[k + 1].bytes) \in Nat
      /\ End(segs, k) \in Nat /\ End(segs, k + 1) = End(segs, k) + Len(segs[k + 1].bytes)
  BY SegmentAt
<1>2. CASE segs[k + 1].d \in AnyReply
  BY <1>2, ReplySpot
<1>3. CASE segs[k + 1].d \in Keys
  <2>1. InKey(segs, End(segs, k) + x) /\ End(segs, k) + x \in Nat
    <3>1. End(segs, k) < End(segs, k) + x /\ End(segs, k) + x <= End(segs, k + 1)
      BY <1>1
    <3>2. QED
      BY <1>1, <1>3, <3>1 DEF InKey
  <2>2. NothingAt(SubSeq(Stream(segs), 1, r), End(segs, k) + x)
    BY <2>1, NothingInKey
  <2>3. \A p \in ParserNames : \A next : Expected(p, segs[k + 1].d, next) = None
    BY <1>3, ExpectedIs DEF Keys
  <2>4. QED
    BY <2>2, <2>3 DEF NothingAt, Spot
<1>4. QED
  BY <1>1, <1>2, <1>3 DEF SegmentOK

-----------------------------------------------------------------------------
(* The scan of the input.                                                  *)

(* What is parsed from offset o on, when f is what is parsed later on. *)
ScannedFrom(p, input, f, o) ==
    IF o > Len(input) THEN <<>>
    ELSE IF ParseAt(p, input, o) = None THEN f[o + 1]
         ELSE <<ParseAt(p, input, o)>> \o f[ParseAt(p, input, o).next]

IsScan(f, p, input, a) == f = [o \in a .. Len(input) + 1 |-> ScannedFrom(p, input, f, o)]

(* Every event ends behind where it begins, and in the input. *)
Advances(p, input) ==
    \A o \in 1 .. Len(input) :
      ParseAt(p, input, o) # None => ParseAt(p, input, o).next \in o + 1 .. Len(input) + 1

LEMMA ScanExists ==
    ASSUME NEW p, NEW input, Len(input) \in Nat, Advances(p, input)
    PROVE  \A k \in Nat : k <= Len(input) => \E f : IsScan(f, p, input, Len(input) + 1 - k)
<1> DEFINE m == Len(input)
           S == {k \in Nat : k <= m => \E f : IsScan(f, p, input, m + 1 - k)}
<1> HIDE DEF m
<1>1. m \in Nat /\ m = Len(input)
  BY DEF m
<1>2. 0 \in S
  <2> DEFINE f == [o \in m + 1 .. m + 1 |-> <<>>]
  <2>1. \A g : \A o \in m + 1 .. m + 1 : ScannedFrom(p, input, g, o) = <<>>
    <3>1. \A o \in m + 1 .. m + 1 : o > Len(input)
      BY <1>1
    <3> HIDE DEF f
    <3>2. QED
      BY <3>1 DEF ScannedFrom
  <2>2. f = [o \in m + 1 .. m + 1 |-> ScannedFrom(p, input, f, o)]
    <3> DEFINE g == f
    <3>1. \A o \in m + 1 .. m + 1 : ScannedFrom(p, input, g, o) = <<>>
      BY <2>1
    <3>2. f = [o \in m + 1 .. m + 1 |-> <<>>]
      OBVIOUS
    <3> HIDE DEF g
    <3>3. [o \in m + 1 .. m + 1 |-> ScannedFrom(p, input, g, o)] = [o \in m + 1 .. m + 1 |-> <<>>]
      BY <3>1
    <3>4. QED
      BY <3>2, <3>3 DEF g
  <2>3. m + 1 - 0 = m + 1
    BY <1>1
  <2> HIDE DEF f
  <2>4. IsScan(f, p, input, m + 1 - 0)
    BY <1>1, <2>2, <2>3 DEF IsScan
  <2>5. QED
    BY <2>4
<1>3. ASSUME NEW k \in Nat, k \in S PROVE k + 1 \in S
  <2> SUFFICES ASSUME k + 1 <= m PROVE \E f : IsScan(f, p, input, m + 1 - (k + 1))
    OBVIOUS
  <2> DEFINE a == m + 1 - k
  <2>1. PICK f : IsScan(f, p, input, a)
    BY <1>1, <1>3
  <2>2. a \in Nat /\ a >= 2 /\ a <= m + 1 /\ m + 1 - (k + 1) = a - 1
    BY <1>1
  <2> HIDE DEF a
  <2>3. f = [o \in a .. m + 1 |-> ScannedFrom(p, input, f, o)]
    BY <1>1, <2>1 DEF IsScan
  <2> DEFINE g == [o \in a - 1 .. m + 1 |-> IF o >= a THEN f[o] ELSE ScannedFrom(p, input, f, o)]
  <2>4. \A o \in a .. m + 1 : g[o] = f[o]
    BY <2>2
  <2>5. \A o \in a - 1 .. m + 1 : g[o] = ScannedFrom(p, input, f, o)
    <3>1. \A o \in a .. m + 1 : f[o] = ScannedFrom(p, input, f, o)
      BY <2>3
    <3>2. \A o \in a - 1 .. m + 1 : o >= a => o \in a .. m + 1
      BY <1>1, <2>2
    <3>3. QED
      BY <3>1, <3>2
  <2>6. g = [o \in a - 1 .. m + 1 |-> g[o]]
    OBVIOUS
  <2> HIDE DEF g
  <2>7. ASSUME NEW o \in a - 1 .. m + 1
        PROVE  ScannedFrom(p, input, f, o) = ScannedFrom(p, input, g, o)
    <3>1. CASE o > Len(input)
      BY <3>1 DEF ScannedFrom
    <3>2. CASE ~(o > Len(input))
      <4>1. o \in 1 .. Len(input) /\ o + 1 \in a .. m + 1 /\ \A i \in o + 1 .. m + 1 : i \in a .. m + 1
        BY <1>1, <2>2, <3>2
      <4>2. f[o + 1] = g[o + 1]
        BY <2>4, <4>1
      <4>3. ParseAt(p, input, o) # None =>
              f[ParseAt(p, input, o).next] = g[ParseAt(p, input, o).next]
        BY <1>1, <2>4, <4>1 DEF Advances
      <4>4. QED
        BY <3>2, <4>2, <4>3 DEF ScannedFrom
    <3>3. QED
      BY <3>1, <3>2
  <2>8. IsScan(g, p, input, a - 1)
    BY <1>1, <2>5, <2>6, <2>7 DEF IsScan
  <2>9. QED
    BY <2>2, <2>8
<1> HIDE DEF S
<1>4. \A k \in Nat : k \in S
  BY <1>2, <1>3, Induction
<1>5. QED
  BY <1>4 DEF S, m

LEMMA ScanIs ==
    ASSUME NEW p, NEW input, Len(input) \in Nat, Advances(p, input)
    PROVE  \E f : IsScan(f, p, input, 1) /\ Parse(p, input) = f[1]
<1>1. \E f : IsScan(f, p, input, 1)
  <2>1. Len(input) <= Len(input) /\ Len(input) + 1 - Len(input) = 1
    OBVIOUS
  <2>2. QED
    BY <2>1, ScanExists
<1> DEFINE f == CHOOSE f : IsScan(f, p, input, 1)
<1>2. IsScan(f, p, input, 1)
  BY <1>1
<1>3. ParseFrom(p, input) = f
  BY DEF ParseFrom, IsScan, ScannedFrom
<1> HIDE DEF f
<1>4. QED
  BY <1>2, <1>3 DEF Parse

(* Nothing is found between two places. *)
NothingBetween(p, input, a, b) == \A o \in a + 1 .. b : ParseAt(p, input, o) = None

(* There the scan goes on. *)
LEMMA ScanSkips ==
    ASSUME NEW p, NEW input, Len(input) \in Nat, NEW f, IsScan(f, p, input, 1),
           NEW a \in Nat, NEW b \in Nat, a <= b, b <= Len(input),
           NothingBetween(p, input, a, b)
    PROVE  f[a + 1] = f[b + 1]
<1> DEFINE n == b - a
<1>a. n \in Nat /\ a + n = b
  OBVIOUS
<1>b. \A o \in a + 1 .. a + n : ParseAt(p, input, o) = None
  BY <1>a DEF NothingBetween
<1> HIDE DEF n
<1> DEFINE S == {k \in Nat : k <= n => f[a + 1] = f[a + k + 1]}
<1>1. 0 \in S
  <2>1. a + 0 + 1 = a + 1
    OBVIOUS
  <2>2. QED
    BY <2>1
<1>2. ASSUME NEW k \in Nat, k \in S PROVE k + 1 \in S
  <2> SUFFICES ASSUME k + 1 <= n PROVE f[a + 1] = f[a + (k + 1) + 1]
    OBVIOUS
  <2>1. f[a + 1] = f[a + k + 1]
    BY <1>a, <1>2
  <2>2. a + k + 1 \in a + 1 .. a + n /\ a + k + 1 \in 1 .. Len(input) + 1 /\ ~(a + k + 1 > Len(input))
        /\ (a + k + 1) + 1 = a + (k + 1) + 1
    BY <1>a
  <2>3. f[a + k + 1] = ScannedFrom(p, input, f, a + k + 1)
    BY <2>2 DEF IsScan
  <2>4. ScannedFrom(p, input, f, a + k + 1) = f[(a + k + 1) + 1]
    BY <1>b, <2>2 DEF ScannedFrom
  <2>5. QED
    BY <2>1, <2>2, <2>3, <2>4
<1> HIDE DEF S
<1>3. n \in S
  BY <1>a, <1>1, <1>2, Induction
<1>4. QED
  BY <1>a, <1>3 DEF S

(* The event of segment k, when the first r bytes have been read. *)
EventOf(p, segs, r, k) ==
    IF segs[k].from = 1 /\ End(segs, k) <= r
    THEN Expected(p, segs[k].d, End(segs, k) + 1) ELSE None

Events(p, segs, r) ==
    [k \in 1 .. Len(segs) |->
       IF EventOf(p, segs, r, k) = None THEN <<>> ELSE <<EventOf(p, segs, r, k)>>]

LEMMA ExpectedNext ==
    ASSUME NEW d \in AnyReply \cup Keys, NEW next, NEW p \in ParserNames, Expected(p, d, next) # None
    PROVE  Expected(p, d, next).next = next /\ d \in AnyReply
<1>1. CASE d \in KgpReply
  <2>1. p = "kgp" /\ Expected(p, d, next) = ReplyEvent(d.control, d.status, next)
    BY <1>1, ExpectedIs
  <2>2. QED
    BY <1>1, <2>1 DEF ReplyEvent, AnyReply
<1>2. CASE d \in Da1Reply
  <2>1. p \in {"kgp", "sixel"} \/ p \in {"pixels", "cells"}
    BY DEF ParserNames
  <2>2. Expected(p, d, next) = BarrierEvent(d.params, next)
    BY <1>2, <2>1, ExpectedIs
  <2>3. QED
    BY <1>2, <2>2 DEF BarrierEvent, AnyReply
<1>3. CASE d \in Report
  <2>1. p \in {"kgp", "sixel"} \/ p \in {"pixels", "cells"}
    BY DEF ParserNames
  <2>2. Expected(p, d, next) = ReportEvent(d.code, d.size[1], d.size[2], next)
    BY <1>3, <2>1, ExpectedReport
  <2>3. QED
    BY <1>3, <2>2 DEF ReportEvent, AnyReply
<1>4. CASE d \in Keys
  BY <1>4, ExpectedIs DEF Keys
<1>5. QED
  BY <1>1, <1>2, <1>3, <1>4 DEF AnyReply

LEMMA ParserAdvances ==
    ASSUME NEW segs, Sent(segs), NEW r \in 0 .. Len(Stream(segs)), NEW p \in ParserNames
    PROVE  Advances(p, SubSeq(Stream(segs), 1, r))
<1> DEFINE input == SubSeq(Stream(segs), 1, r)
<1>1. Len(input) = r /\ r \in Nat /\ Len(Stream(segs)) \in Nat /\ Len(segs) \in Nat
  BY ReadIs, SentIs DEF Sent
<1> HIDE DEF input
<1>2. ASSUME NEW o \in 1 .. r, ParseAt(p, input, o) # None
      PROVE  ParseAt(p, input, o).next \in o + 1 .. r + 1
  <2>1. PICK k \in Nat : k < Len(segs) /\ End(segs, k) < o /\ o <= End(segs, k + 1)
    <3>1. o \in 1 .. Len(FlattenSeq(BytesOf(segs)))
      BY <1>1, SentIs
    <3>2. BytesOf(segs) \in Seq(Seq(Alphabet)) /\ Len(BytesOf(segs)) = Len(segs)
      BY SentIs
    <3>3. QED
      BY <3>1, <3>2, InAPiece DEF End
  <2>2. /\ SegmentOK(segs[k + 1], k = 0) /\ Len(segs[k + 1].bytes) \in Nat
        /\ End(segs, k) \in Nat /\ End(segs, k + 1) = End(segs, k) + Len(segs[k + 1].bytes)
    <3>1. k < Len(segs)
      BY <2>1
    <3>2. QED
      BY <3>1, SegmentAt
  <2> DEFINE x == o - End(segs, k)
  <2>3. x \in 1 .. Len(segs[k + 1].bytes) /\ End(segs, k) + x = o /\ End(segs, k) + x <= r
    BY <1>1, <2>1, <2>2
  <2> HIDE DEF x
  <2>4. Spot(p, segs, r, k, x)
    BY <2>1, <2>3, SpotIs
  <2>5. /\ End(segs, k + 1) <= r
        /\ ParseAt(p, input, o) = Expected(p, segs[k + 1].d, End(segs, k + 1) + 1)
    BY <1>2, <2>3, <2>4 DEF Spot, input
  <2>6. segs[k + 1].d \in AnyReply \cup Keys
    BY <2>2 DEF SegmentOK
  <2>7. ParseAt(p, input, o).next = End(segs, k + 1) + 1
    BY <1>2, <2>5, <2>6, ExpectedNext
  <2>8. End(segs, k + 1) + 1 \in o + 1 .. r + 1
    BY <1>1, <2>1, <2>2, <2>5
  <2>9. QED
    BY <2>7, <2>8
<1>3. QED
  BY <1>1, <1>2 DEF Advances, input

(* As much of the first k segments as has been read. *)
Cap(segs, r, k) == IF End(segs, k) <= r THEN End(segs, k) ELSE r

LEMMA ScanStep ==
    ASSUME NEW segs, Sent(segs), NEW r \in 0 .. Len(Stream(segs)), NEW p \in ParserNames,
           NEW f, IsScan(f, p, SubSeq(Stream(segs), 1, r), 1), NEW k \in Nat, k < Len(segs)
    PROVE  LET e == EventOf(p, segs, r, k + 1)
               a == f[Cap(segs, r, k) + 1]
               b == f[Cap(segs, r, k + 1) + 1]
           IN IF e = None THEN a = b ELSE a = <<e>> \o b
<1> DEFINE input == SubSeq(Stream(segs), 1, r)
           s == segs[k + 1]
           n == Len(s.bytes)
           u == End(segs, k)
           v == End(segs, k + 1)
           e == EventOf(p, segs, r, k + 1)
<1>1. Len(input) = r /\ r \in Nat
  BY ReadIs, SentIs
<1>2. SegmentOK(s, k = 0) /\ n \in Nat /\ u \in Nat /\ v = u + n
  BY SegmentAt
<1>3. ASSUME NEW x \in 1 .. n, u + x <= r
      PROVE  ParseAt(p, input, u + x) = IF x = 1 THEN e ELSE None
  <2>1. Spot(p, segs, r, k, x)
    BY <1>3, SpotIs
  <2>2. QED
    BY <2>1 DEF Spot, EventOf
<1>4. CASE e = None
  <2> DEFINE a == Cap(segs, r, k)
             b == Cap(segs, r, k + 1)
  <2>1. a \in Nat /\ b \in Nat /\ a <= b /\ b <= r
    BY <1>1, <1>2 DEF Cap
  <2>2. ASSUME NEW o \in a + 1 .. b PROVE ParseAt(p, input, o) = None
    <3>1. (a = IF u <= r THEN u ELSE r) /\ (b = IF v <= r THEN v ELSE r)
      BY DEF Cap
    <3> HIDE DEF a, b, u, v, n, s, e, input
    <3>2. o - u \in 1 .. n /\ u + (o - u) = o /\ u + (o - u) <= r
      BY <1>1, <1>2, <2>1, <3>1
    <3>3. QED
      BY <1>3, <1>4, <3>2
  <2>3. NothingBetween(p, input, a, b)
    BY <2>2 DEF NothingBetween
  <2> HIDE DEF a, b, input
  <2>4. f[a + 1] = f[b + 1]
    <3>1. Len(input) \in Nat /\ b <= Len(input)
      BY <1>1, <2>1
    <3>2. IsScan(f, p, input, 1)
      BY DEF input
    <3> HIDE DEF n, s, u, v, e
    <3>3. QED
      BY <2>1, <2>3, <3>1, <3>2, ScanSkips
  <2>5. QED
    BY <1>4, <2>4 DEF a, b
<1>5. CASE e # None
  <2>1. s.from = 1 /\ v <= r /\ e = Expected(p, s.d, v + 1)
    BY <1>5 DEF EventOf
  <2>2. s.d \in AnyReply /\ e.next = v + 1
    <3>1. s.d \in AnyReply \cup Keys
      BY <1>2 DEF SegmentOK
    <3>2. QED
      BY <1>5, <2>1, <3>1, ExpectedNext
  <2>3. n >= 1
    <3>1. CASE s.d \in KgpReply
      <4>1. Len(Written(s.d)) = 8
        BY <3>1, KgpWritten
      <4>2. Len(s.bytes) = Len(Written(s.d)) - s.from + 1
        BY <1>2, SegmentIs
      <4>3. QED
        BY <2>1, <4>1, <4>2
    <3>2. CASE s.d \in Da1Reply
      <4>1. Len(Written(s.d)) = Len(s.d.params) + 4 /\ Len(s.d.params) \in Nat
        BY <3>2, Da1Written
      <4>2. Len(s.bytes) = Len(Written(s.d)) - s.from + 1
        BY <1>2, SegmentIs
      <4>3. QED
        BY <2>1, <4>1, <4>2
    <3>3. CASE s.d \in Report
      <4>1. Len(Written(s.d)) = 8
        BY <3>3, ReportWritten
      <4>2. Len(s.bytes) = Len(Written(s.d)) - s.from + 1
        BY <1>2, SegmentIs
      <4>3. QED
        BY <2>1, <4>1, <4>2
    <3>4. QED
      BY <2>2, <3>1, <3>2, <3>3 DEF AnyReply
  <2>4. u <= r /\ u + 1 <= r /\ 1 \in 1 .. n /\ u + 1 \in 1 .. r + 1 /\ ~(u + 1 > r)
    <3>1. n \in Nat /\ u \in Nat /\ v = u + n /\ v <= r /\ r \in Nat /\ n >= 1
      BY <1>1, <1>2, <2>1, <2>3
    <3> HIDE DEF n, u, v, s, e, input
    <3>2. QED
      BY <3>1
  <2>5. ParseAt(p, input, u + 1) = e
    BY <1>3, <2>4
  <2> HIDE DEF e, input, s, n
  <2>6. f[u + 1] = ScannedFrom(p, input, f, u + 1)
    BY <1>1, <2>4 DEF IsScan, input
  <2>7. f[u + 1] = <<e>> \o f[v + 1]
    BY <1>1, <1>5, <2>2, <2>4, <2>5, <2>6 DEF ScannedFrom
  <2>8. Cap(segs, r, k) = u /\ Cap(segs, r, k + 1) = v
    BY <2>1, <2>4 DEF Cap
  <2>9. QED
    BY <1>5, <2>7, <2>8 DEF e
<1>6. QED
  BY <1>4, <1>5

(* What is parsed of a stream is the replies that have been read whole.    *)
LEMMA ParseIs ==
    ASSUME NEW segs, Sent(segs), NEW r \in 0 .. Len(Stream(segs)), NEW p \in ParserNames
    PROVE  Parse(p, SubSeq(Stream(segs), 1, r)) = FlattenSeq(Events(p, segs, r))
<1> DEFINE input == SubSeq(Stream(segs), 1, r)
           m == Len(segs)
           E == Events(p, segs, r)
           X == {EventOf(p, segs, r, k) : k \in 1 .. m}
           After(k) == FlattenSeq(SubSeq(E, k + 1, m))
<1>1. Len(input) = r /\ r \in Nat /\ m \in Nat
  BY ReadIs, SentIs DEF Sent
<1>2. PICK f : IsScan(f, p, input, 1) /\ Parse(p, input) = f[1]
  <2>1. Len(input) \in Nat
    BY <1>1
  <2>2. Advances(p, input)
    BY ParserAdvances
  <2> HIDE DEF input
  <2>3. QED
    BY <2>1, <2>2, ScanIs
<1>3. /\ E \in Seq(Seq(X)) /\ Len(E) = m
      /\ \A k \in 1 .. m : E[k] = IF EventOf(p, segs, r, k) = None THEN <<>>
                                  ELSE <<EventOf(p, segs, r, k)>>
  <2>1. \A k \in 1 .. m : EventOf(p, segs, r, k) \in X
    OBVIOUS
  <2> HIDE DEF X
  <2>2. \A k \in 1 .. m : E[k] = IF EventOf(p, segs, r, k) = None THEN <<>>
                                  ELSE <<EventOf(p, segs, r, k)>>
    BY DEF Events
  <2>3. \A k \in 1 .. m : E[k] \in Seq(X)
    <3>1. \A x \in X : <<x>> \in Seq(X)
      OBVIOUS
    <3>2. <<>> \in Seq(X)
      BY EmptySeq
    <3>3. QED
      BY <2>1, <2>2, <3>1, <3>2
  <2>4. E = [k \in 1 .. m |-> E[k]]
    BY DEF Events
  <2> HIDE DEF E
  <2>5. QED
    BY <1>1, <2>2, <2>3, <2>4
<1>4. Cap(segs, r, m) = r /\ Cap(segs, r, 0) = 0
  BY <1>1, SentIs DEF Cap
<1> DEFINE S == {j \in Nat : j <= m => f[Cap(segs, r, m - j) + 1] = After(m - j)}
<1>5. 0 \in S
  <2>1. f[r + 1] = <<>>
    <3>1. r + 1 \in 1 .. Len(input) + 1 /\ r + 1 > Len(input)
      BY <1>1
    <3> HIDE DEF input
    <3>2. QED
      BY <1>2, <3>1 DEF IsScan, ScannedFrom
  <2>2. SubSeq(E, m + 1, m) = <<>>
    <3>1. m + 1 \in Int /\ m \in Int /\ m < m + 1
      BY <1>1
    <3> HIDE DEF m, E
    <3>2. QED
      BY <3>1, SubSeqEmpty
  <2>3. After(m) = <<>>
    BY <2>2, FlattenEmpty
  <2>4. m - 0 = m
    BY <1>1
  <2>5. QED
    BY <1>4, <2>1, <2>3, <2>4
<1>6. ASSUME NEW j \in Nat, j \in S PROVE j + 1 \in S
  <2> SUFFICES ASSUME j + 1 <= m
               PROVE  f[Cap(segs, r, m - (j + 1)) + 1] = After(m - (j + 1))
    OBVIOUS
  <2> DEFINE k == m - (j + 1)
             e == EventOf(p, segs, r, k + 1)
  <2>1. k \in Nat /\ k < m /\ k + 1 = m - j /\ k + 1 \in 1 .. m
    BY <1>1
  <2>2. f[Cap(segs, r, k + 1) + 1] = After(k + 1)
    BY <1>1, <1>6, <2>1
  <2>3. LET a == f[Cap(segs, r, k) + 1]
            b == f[Cap(segs, r, k + 1) + 1]
        IN IF e = None THEN a = b ELSE a = <<e>> \o b
    <3>1. k < Len(segs) /\ k \in Nat
      BY <2>1
    <3>2. IsScan(f, p, SubSeq(Stream(segs), 1, r), 1)
      BY <1>2
    <3> HIDE DEF k
    <3>3. QED
      BY <3>1, <3>2, ScanStep
  <2>4. After(k) = E[k + 1] \o After(k + 1) /\ After(k + 1) \in Seq(X)
    <3>1. SubSeq(E, k + 1, m) = <<E[k + 1]>> \o SubSeq(E, (k + 1) + 1, m)
      <4>1. k + 1 \in 1 .. Len(E) /\ m \in k + 1 .. Len(E)
        BY <1>1, <1>3, <2>1
      <4> HIDE DEF k, m, E, X
      <4>2. QED
        BY <1>3, <4>1, SubSeqRecursiveFirst
    <3>2. E[k + 1] \in Seq(X) /\ <<E[k + 1]>> \in Seq(Seq(X))
      <4>1. k + 1 \in 1 .. Len(E)
        BY <1>3, <2>1
      <4> HIDE DEF k, m, E, X
      <4>2. QED
        BY <1>3, <4>1, ElementOfSeq
    <3>3. SubSeq(E, (k + 1) + 1, m) \in Seq(Seq(X))
      <4>1. \A i \in (k + 1) + 1 .. m : i \in 1 .. Len(E)
        BY <1>1, <1>3, <2>1
      <4>2. (k + 1) + 1 \in Int /\ m \in Int
        BY <1>1, <2>1
      <4> HIDE DEF k, m, E, X
      <4>3. \A i \in (k + 1) + 1 .. m : E[i] \in Seq(X)
        BY <1>3, <4>1, ElementOfSeq
      <4> DEFINE g == (k + 1) + 1
      <4>4. g \in Int /\ \A i \in g .. m : E[i] \in Seq(X)
        BY <4>2, <4>3
      <4> HIDE DEF g
      <4>5. SubSeq(E, g, m) \in Seq(Seq(X))
        BY <1>3, <4>2, <4>4, SubSeqProperties
      <4>6. QED
        BY <4>5 DEF g
    <3> DEFINE y == E[k + 1]
               t == SubSeq(E, (k + 1) + 1, m)
    <3>4. y \in Seq(X) /\ <<y>> \in Seq(Seq(X)) /\ t \in Seq(Seq(X))
          /\ After(k) = FlattenSeq(<<y>> \o t) /\ After(k + 1) = FlattenSeq(t)
      BY <3>1, <3>2, <3>3
    <3> HIDE DEF y, t, After, X, k, E, m
    <3>5. FlattenSeq(<<y>> \o t) = FlattenSeq(<<y>>) \o FlattenSeq(t)
      BY <3>4, FlattenConcat
    <3>6. FlattenSeq(<<y>>) = y /\ FlattenSeq(t) \in Seq(X)
      BY <3>4, FlattenOne, FlattenType
    <3>7. QED
      BY <3>4, <3>5, <3>6 DEF y
  <2>5. E[k + 1] = IF e = None THEN <<>> ELSE <<e>>
    BY <1>3, <2>1
  <2>6. <<>> \o After(k + 1) = After(k + 1)
    <3> HIDE DEF After, k, X
    <3>1. QED
      BY <2>4, ConcatEmptySeq
  <2> HIDE DEF After, e, E, X, m
  <2>7. f[Cap(segs, r, k) + 1] = After(k)
    BY <2>2, <2>3, <2>4, <2>5, <2>6
  <2>8. QED
    BY <2>7
<1> HIDE DEF S
<1>7. m \in S
  BY <1>1, <1>5, <1>6, Induction
<1>8. f[1] = After(0)
  <2>1. m - m = 0 /\ m <= m /\ 0 + 1 = 1
    BY <1>1
  <2> HIDE DEF After, m
  <2>2. f[Cap(segs, r, 0) + 1] = After(0)
    BY <1>7, <2>1 DEF S
  <2>3. QED
    BY <1>4, <2>1, <2>2
<1>9. After(0) = FlattenSeq(E)
  <2>1. 0 + 1 = 1
    OBVIOUS
  <2> HIDE DEF E, X, m
  <2>2. SubSeq(E, 1, m) = E
    BY <1>3, SubSeqFull
  <2>3. QED
    BY <2>1, <2>2
<1>10. QED
  BY <1>2, <1>8, <1>9

(* The bytes of the first segments are those that Complete counts.         *)
LEMMA EndIs ==
    ASSUME NEW segs, Sent(segs), NEW k \in 1 .. Len(segs)
    PROVE  Len(Stream(SubSeq(segs, 1, k))) = End(segs, k)
<1> DEFINE m == Len(segs)
           b == BytesOf(segs)
           s == SubSeq(segs, 1, k)
<1>1. m \in Nat /\ DOMAIN segs = 1 .. m /\ k \in Nat /\ k <= m
  BY DEF Sent
<1>2. s = [i \in 1 .. k |-> segs[i]]
  <2>1. DOMAIN s = 1 .. k /\ Len(s) = k
    BY <1>1
  <2>2. QED
    BY <1>1, <2>1
<1>3. SubSeq(b, 1, k) = [i \in 1 .. k |-> segs[i].bytes]
  <2>1. b = [i \in 1 .. m |-> segs[i].bytes]
    BY DEF BytesOf
  <2> HIDE DEF b
  <2>2. \A i \in 1 .. k : i \in 1 .. m
    BY <1>1
  <2>3. SubSeq(b, 1, k) = [i \in 1 .. k |-> b[i]]
    BY <1>1
  <2>4. QED
    BY <2>1, <2>2, <2>3
<1>4. [i \in DOMAIN s |-> s[i].bytes] = SubSeq(b, 1, k)
  BY <1>2, <1>3
<1> HIDE DEF s, b
<1>5. QED
  BY <1>4 DEF Stream, End, Flat, s, b

LEMMA CompleteIs ==
    ASSUME Sent(segments), NEW p, NEW r
    PROVE  Complete(p, r) = FlattenSeq(Events(p, segments, r))
<1> DEFINE last(i) == Len(Stream(SubSeq(segments, 1, i)))
           seen(i) == IF segments[i].from = 1 /\ last(i) <= r
                      THEN Expected(p, segments[i].d, last(i) + 1) ELSE None
<1>1. DOMAIN segments = 1 .. Len(segments)
  BY DEF Sent
<1>2. \A i \in 1 .. Len(segments) : last(i) = End(segments, i)
  BY EndIs
<1>3. \A i \in 1 .. Len(segments) : seen(i) = EventOf(p, segments, r, i)
  <2> HIDE DEF last
  <2>1. QED
    BY <1>2 DEF EventOf
<1>4. Complete(p, r) = FlattenSeq([i \in DOMAIN segments |-> IF seen(i) = None THEN <<>> ELSE <<seen(i)>>])
  BY DEF Complete
<1> HIDE DEF seen
<1>5. QED
  BY <1>1, <1>3, <1>4 DEF Events

-----------------------------------------------------------------------------
(* The invariant of the exchange.                                          *)

(* The reply at which the collection stops, when all before it have come. *)
Closes(d) == d.t = "da1" \/ (d.t = "report" /\ d.code = "8")

OnlyKeysFollow(segs) ==
    \A i, j \in 1 .. Len(segs) :
      i < j /\ segs[i].from = 1 /\ Closes(segs[i].d) => segs[j].d \in Keys

(* Every KGP reply comes after every answer to DA1. *)
BarriersFirst(segs) ==
    \A i, j \in 1 .. Len(segs) :
      segs[i].from = 1 /\ segs[j].from = 1 /\ segs[i].d.t = "kgp" /\ segs[j].d.t = "da1" => j < i

(* The two orders in which a terminal answers. *)
InOrder(k, segs) ==
    OnlyKeysFollow(segs) \/ (k = "kgp" /\ RepliesLate(segs) /\ BarriersFirst(segs))

(* No whole reply of an earlier exchange comes first. *)
NoneLate(segs) == segs # <<>> /\ (segs[1].from > 1 \/ segs[1].d \notin LateReplies)

WireInv ==
    /\ kind \in Kinds /\ phase \in {"send", "answer", "test", "read", "done"}
    /\ Sent(segments) /\ stream = Stream(segments)
    /\ arrived \in 0 .. Len(stream)
    /\ phase \in {"send", "answer"} => arrived = 0
    /\ phase \in {"answer", "test", "read"} => kind # "image"
    /\ NoneLate(segments) => InOrder(kind, segments)
    /\ stopped => phase = "done" /\ kind # "image" /\ Stops(kind, got)

Wholes == {Whole(d) : d \in AnyReply \cup Keys}

(* Whole replies in such an order, among keys. *)
Answers(k, s) == s \in Seq(Wholes) /\ InOrder(k, s)

LEMMA WholeIs ==
    ASSUME NEW s \in Wholes
    PROVE  s.d \in AnyReply \cup Keys /\ s.from = 1 /\ SegmentOK(s, FALSE)
<1>1. PICK d \in AnyReply \cup Keys : s = Whole(d)
  BY DEF Wholes
<1>2. s.d = d /\ s.from = 1 /\ s.bytes = SubSeq(Written(d), 1, Len(Written(d)))
  BY <1>1 DEF Whole, Segment
<1>3. Len(Written(d)) \in Nat
  BY WrittenType
<1>4. QED
  BY <1>2, <1>3 DEF SegmentOK

LEMMA KeysCloseNothing ==
    ASSUME NEW d \in Keys
    PROVE  ~Closes(d)
BY DEF Closes, Keys

LEMMA RepliesAnswer ==
    ASSUME WireAssumption, NEW s \in Replies(kind), kind \in {"kgp", "sixel", "geometry"}
    PROVE  Answers(kind, s)
<1>1. ASSUME NEW d \in AnyReply, s = <<Whole(d)>> PROVE Answers(kind, s)
  <2>1. Whole(d) \in Wholes
    BY DEF Wholes
  <2>2. s \in Seq(Wholes) /\ Len(s) = 1
    BY <1>1, <2>1
  <2>3. OnlyKeysFollow(s)
    BY <2>2 DEF OnlyKeysFollow
  <2>4. QED
    BY <2>2, <2>3 DEF Answers, InOrder
<1>a. ASSUME NEW d \in AnyReply, NEW e \in AnyReply, s = <<Whole(d), Whole(e)>>
      PROVE  /\ s \in Seq(Wholes) /\ Len(s) = 2 /\ DOMAIN s = 1 .. 2
             /\ s[1].d = d /\ s[2].d = e /\ s[1].from = 1 /\ s[2].from = 1
  <2>1. Whole(d) \in Wholes /\ Whole(e) \in Wholes
    BY DEF Wholes
  <2>2. Whole(d).d = d /\ Whole(e).d = e /\ Whole(d).from = 1 /\ Whole(e).from = 1
    BY DEF Whole, Segment
  <2>3. s \in Seq(Wholes) /\ Len(s) = 2 /\ s[1] = Whole(d) /\ s[2] = Whole(e)
    BY <1>a, <2>1
  <2>4. DOMAIN s = 1 .. 2
    BY <2>3, LenProperties
  <2>5. QED
    BY <2>2, <2>3, <2>4
<1>2. ASSUME NEW d \in AnyReply, NEW e \in AnyReply, s = <<Whole(d), Whole(e)>>, ~Closes(d)
      PROVE  Answers(kind, s)
  <2>1. s \in Seq(Wholes) /\ Len(s) = 2 /\ s[1].d = d
    BY <1>2, <1>a
  <2>2. \A i, j \in 1 .. Len(s) : i < j => i = 1
    BY <2>1
  <2>3. OnlyKeysFollow(s)
    BY <1>2, <2>1, <2>2 DEF OnlyKeysFollow
  <2>4. QED
    BY <2>1, <2>3 DEF Answers, InOrder
<1>b. ASSUME kind = "kgp", NEW d \in Da1Reply, NEW k \in KgpReply, s = <<Whole(d), Whole(k)>>
      PROVE  Answers(kind, s)
  <2>1. d \in AnyReply /\ k \in AnyReply /\ d.t = "da1" /\ k.t = "kgp"
    BY DEF AnyReply, Da1Reply, KgpReply
  <2>2. /\ s \in Seq(Wholes) /\ Len(s) = 2 /\ DOMAIN s = 1 .. 2
        /\ s[1].d = d /\ s[2].d = k /\ s[1].from = 1 /\ s[2].from = 1
    BY <1>b, <1>a, <2>1
  <2>3. RepliesLate(s)
    <3>1. 1 \in 1 .. 2 /\ 2 \in 1 .. 2 /\ 1 < 2
      OBVIOUS
    <3>2. QED
      BY <2>1, <2>2, <3>1 DEF RepliesLate
  <2>4. BarriersFirst(s)
    <3>1. \A i \in 1 .. 2 : i = 1 \/ i = 2
      OBVIOUS
    <3>2. \A i \in 1 .. 2 : s[i].d.t = "kgp" => i = 2
      BY <2>1, <2>2, <3>1
    <3>3. \A j \in 1 .. 2 : s[j].d.t = "da1" => j = 1
      BY <2>1, <2>2, <3>1
    <3>4. QED
      BY <2>2, <3>2, <3>3 DEF BarriersFirst
  <2>5. QED
    BY <1>b, <2>2, <2>3, <2>4 DEF Answers, InOrder
<1>3. CASE kind = "kgp"
  <2>1. \/ \E k \in KgpReplies : \E d \in Da1Replies : s = <<Whole(k), Whole(d)>>
        \/ \E k \in KgpReplies : \E d \in Da1Replies : s = <<Whole(d), Whole(k)>>
        \/ \E d \in Da1Replies : s = <<Whole(d)>>
    BY <1>3 DEF Replies
  <2>2. \A k \in KgpReplies : k \in KgpReply /\ k \in AnyReply /\ ~Closes(k)
    BY DEF WireAssumption, AnyReply, KgpReply, Closes
  <2>3. \A d \in Da1Replies : d \in Da1Reply /\ d \in AnyReply
    BY DEF WireAssumption, AnyReply
  <2>4. QED
    BY <1>1, <1>2, <1>3, <1>b, <2>1, <2>2, <2>3
<1>4. CASE kind = "sixel"
  <2>1. \E d \in Da1Replies : s = <<Whole(d)>>
    BY <1>4 DEF Replies
  <2>2. \A d \in Da1Replies : d \in AnyReply
    BY DEF WireAssumption, AnyReply
  <2>3. QED
    BY <1>1, <2>1, <2>2
<1>5. CASE kind = "geometry"
  <2> DEFINE R(c, p) == [t |-> "report", code |-> c, size |-> p]
  <2>1. \E p \in Reports : \E c \in Reports : s = <<Whole(R("4", p)), Whole(R("8", c))>>
    <3>1. Replies(kind) = {<<Whole(R("4", p)), Whole(R("8", c))>> : p \in Reports, c \in Reports}
      BY <1>5 DEF Replies
    <3> HIDE DEF R
    <3>2. QED
      BY <3>1
  <2>2. \A p \in Reports : p \in Numbers \X Numbers
    BY DEF WireAssumption
  <2>3. \A p \in Reports : \A c \in {"4", "8"} : R(c, p) \in AnyReply
    BY <2>2 DEF AnyReply, Report
  <2>4. \A p \in Reports : ~Closes(R("4", p))
    BY DEF Closes
  <2> HIDE DEF R
  <2>5. QED
    BY <1>2, <2>1, <2>3, <2>4
<1>6. QED
  BY <1>3, <1>4, <1>5

(* A key between the replies changes nothing about their order. *)
LEMMA KeyInserted ==
    ASSUME NEW e, NEW s, Answers(e, s), NEW k \in Keys, NEW n \in 1 .. Len(s) + 1
    PROVE  Answers(e, InsertAt(s, n, Whole(k)))
<1> DEFINE m == Len(s)
           x == Whole(k)
           a == SubSeq(s, 1, n - 1)
           b == SubSeq(s, n, m)
           c == a \o <<x>>
           t == c \o b
           Old(i) == IF i < n THEN i ELSE i - 1
<1>1. s \in Seq(Wholes) /\ m \in Nat /\ x \in Wholes /\ x.d = k /\ n \in 1 .. m + 1
  BY LenProperties DEF Answers, Wholes, Whole, Segment
<1>2. /\ a \in Seq(Wholes) /\ Len(a) = n - 1
      /\ \A i \in 1 .. n - 1 : a[i] = s[i]
  <2>1. \A i \in 1 .. n - 1 : s[i] \in Wholes
    BY <1>1, ElementOfSeq
  <2> DEFINE l == n - 1
  <2>2. l \in Int /\ \A i \in 1 .. l : s[i] \in Wholes
    BY <1>1, <2>1
  <2>3. l - 1 + 1 = l /\ (1 <= l \/ l = 0) /\ \A i \in 1 .. l : 1 + i - 1 = i
    BY <1>1
  <2> HIDE DEF l
  <2>4. /\ SubSeq(s, 1, l) \in Seq(Wholes)
        /\ Len(SubSeq(s, 1, l)) = IF 1 <= l THEN l - 1 + 1 ELSE 0
        /\ \A i \in 1 .. l - 1 + 1 : SubSeq(s, 1, l)[i] = s[1 + i - 1]
    BY <2>2, SubSeqProperties
  <2>5. /\ SubSeq(s, 1, l) \in Seq(Wholes) /\ Len(SubSeq(s, 1, l)) = l
        /\ \A i \in 1 .. l : SubSeq(s, 1, l)[i] = s[i]
    BY <2>3, <2>4
  <2>6. QED
    BY <2>5 DEF l
<1>3. /\ b \in Seq(Wholes) /\ Len(b) = m - n + 1
      /\ \A i \in 1 .. m - n + 1 : b[i] = s[n + i - 1]
  <2>1. \A i \in n .. m : s[i] \in Wholes
    BY <1>1, ElementOfSeq
  <2>2. n \in Int /\ m \in Int /\ (n <= m \/ m - n + 1 = 0)
    BY <1>1
  <2> HIDE DEF m
  <2>3. /\ SubSeq(s, n, m) \in Seq(Wholes)
        /\ Len(SubSeq(s, n, m)) = IF n <= m THEN m - n + 1 ELSE 0
        /\ \A i \in 1 .. m - n + 1 : SubSeq(s, n, m)[i] = s[n + i - 1]
    BY <2>1, <2>2, SubSeqProperties
  <2>4. QED
    BY <2>2, <2>3
<1> HIDE DEF a, b, x
<1>4. /\ c \in Seq(Wholes) /\ Len(c) = n
      /\ \A i \in 1 .. n : c[i] = IF i < n THEN s[i] ELSE x
  <2>1. <<x>> \in Seq(Wholes) /\ Len(<<x>>) = 1 /\ <<x>>[1] = x
    BY <1>1
  <2>2. /\ c \in Seq(Wholes) /\ Len(c) = n - 1 + 1
        /\ \A i \in 1 .. n - 1 + 1 : c[i] = IF i <= n - 1 THEN a[i] ELSE <<x>>[i - (n - 1)]
    <3> DEFINE y == <<x>>
    <3>1. y \in Seq(Wholes) /\ Len(y) = 1
      BY <2>1
    <3> HIDE DEF y
    <3>2. /\ a \o y \in Seq(Wholes) /\ Len(a \o y) = Len(a) + Len(y)
          /\ \A i \in 1 .. Len(a) + Len(y) : (a \o y)[i] = IF i <= Len(a) THEN a[i] ELSE y[i - Len(a)]
      BY <1>2, <3>1, ConcatProperties
    <3>3. QED
      BY <1>2, <3>1, <3>2 DEF y
  <2> HIDE DEF c
  <2>3. n - 1 + 1 = n /\ \A i \in 1 .. n : (i <= n - 1 <=> i < n) /\ (~(i < n) => i - (n - 1) = 1)
    BY <1>1
  <2>4. \A i \in 1 .. n : c[i] = IF i < n THEN a[i] ELSE x
    BY <2>1, <2>2, <2>3
  <2>5. \A i \in 1 .. n : i < n => i \in 1 .. n - 1
    BY <1>1
  <2>6. QED
    BY <1>2, <2>2, <2>3, <2>4, <2>5
<1> HIDE DEF c, m
<1>5. /\ t \in Seq(Wholes) /\ Len(t) = m + 1
      /\ \A i \in 1 .. m + 1 : t[i] = IF i <= n THEN c[i] ELSE b[i - n]
  <2>1. /\ t \in Seq(Wholes) /\ Len(t) = Len(c) + Len(b)
        /\ \A i \in 1 .. Len(c) + Len(b) : t[i] = IF i <= Len(c) THEN c[i] ELSE b[i - Len(c)]
    BY <1>3, <1>4, ConcatProperties
  <2>2. Len(c) + Len(b) = m + 1 /\ Len(c) = n
    BY <1>1, <1>3, <1>4
  <2> HIDE DEF t
  <2>3. QED
    BY <2>1, <2>2
<1>6. \A i \in 1 .. m + 1 : t[i] = IF i = n THEN x ELSE s[Old(i)]
  <2> SUFFICES ASSUME NEW i \in 1 .. m + 1 PROVE t[i] = IF i = n THEN x ELSE s[Old(i)]
    OBVIOUS
  <2>1. CASE i <= n
    <3>1. i \in 1 .. n /\ (i < n <=> i # n)
      BY <1>1, <2>1
    <3>2. t[i] = c[i]
      BY <1>5, <2>1
    <3>3. c[i] = IF i < n THEN s[i] ELSE x
      BY <1>4, <3>1
    <3>4. QED
      BY <3>1, <3>2, <3>3
  <2>2. CASE ~(i <= n)
    <3> DEFINE l == i - n
    <3>1. l \in 1 .. m - n + 1 /\ n + l - 1 = i - 1 /\ ~(i < n) /\ i # n
      BY <1>1, <2>2
    <3>2. t[i] = b[l]
      BY <1>5, <2>2
    <3> HIDE DEF l
    <3>3. t[i] = s[i - 1]
      BY <1>3, <3>1, <3>2
    <3>4. QED
      BY <3>1, <3>3
  <2>3. QED
    BY <2>1, <2>2
<1> HIDE DEF t
<1>k. x.d.t = "key"
  BY <1>1 DEF Keys
<1>o. \A i \in 1 .. m + 1 : i # n =>
        /\ Old(i) \in 1 .. m /\ t[i] = s[Old(i)]
        /\ \A j \in 1 .. m + 1 : j # n => (Old(i) < Old(j) <=> i < j)
  BY <1>1, <1>6
<1>7. ASSUME OnlyKeysFollow(s) PROVE OnlyKeysFollow(t)
  <2> SUFFICES ASSUME NEW i \in 1 .. m + 1, NEW j \in 1 .. m + 1,
                      i < j, t[i].from = 1, Closes(t[i].d)
               PROVE  t[j].d \in Keys
    BY <1>5 DEF OnlyKeysFollow
  <2>1. CASE j = n
    BY <1>1, <1>6, <2>1
  <2>2. CASE i = n
    BY <1>1, <1>6, <2>2, KeysCloseNothing
  <2>3. CASE i # n /\ j # n
    <3>1. Old(i) \in 1 .. m /\ Old(j) \in 1 .. m /\ Old(i) < Old(j)
      BY <1>o, <2>3
    <3>2. t[i] = s[Old(i)] /\ t[j] = s[Old(j)]
      BY <1>6, <2>3
    <3> HIDE DEF Old
    <3>3. QED
      BY <1>7, <3>1, <3>2 DEF OnlyKeysFollow, m
  <2>4. QED
    BY <2>1, <2>2, <2>3
<1>a. ASSUME e = "kgp", RepliesLate(s), BarriersFirst(s) PROVE InOrder(e, t)
  <2>1. RepliesLate(t)
    <3>1. DOMAIN s = 1 .. m /\ DOMAIN t = 1 .. m + 1
      BY <1>1, <1>5, LenProperties DEF m
    <3>2. PICK i \in 1 .. m, j \in 1 .. m :
                 i < j /\ s[i].from = 1 /\ s[i].d.t = "da1" /\ s[j].d.t = "kgp"
      BY <1>a, <3>1 DEF RepliesLate
    <3> DEFINE New(l) == IF l < n THEN l ELSE l + 1
    <3>3. /\ New(i) \in 1 .. m + 1 /\ New(j) \in 1 .. m + 1 /\ New(i) < New(j)
          /\ New(i) # n /\ New(j) # n /\ Old(New(i)) = i /\ Old(New(j)) = j
      BY <1>1, <3>2
    <3> HIDE DEF New, Old
    <3>4. t[New(i)] = s[i] /\ t[New(j)] = s[j]
      BY <1>o, <3>3
    <3>5. QED
      BY <3>1, <3>2, <3>3, <3>4 DEF RepliesLate
  <2>2. BarriersFirst(t)
    <3> SUFFICES ASSUME NEW i \in 1 .. m + 1, NEW j \in 1 .. m + 1, t[i].from = 1, t[j].from = 1,
                        t[i].d.t = "kgp", t[j].d.t = "da1"
                 PROVE  j < i
      BY <1>5 DEF BarriersFirst
    <3>1. i # n /\ j # n
      BY <1>6, <1>k
    <3> HIDE DEF Old
    <3>2. Old(i) \in 1 .. m /\ Old(j) \in 1 .. m /\ t[i] = s[Old(i)] /\ t[j] = s[Old(j)]
      BY <1>o, <3>1
    <3>3. Old(j) < Old(i)
      BY <1>a, <3>2 DEF BarriersFirst, m
    <3>4. QED
      BY <1>o, <3>1, <3>3
  <2>3. QED
    BY <1>a, <2>1, <2>2 DEF InOrder
<1>8. InsertAt(s, n, Whole(k)) = t
  BY DEF InsertAt, t, c, a, b, x, m
<1>9. QED
  BY <1>5, <1>7, <1>a, <1>8 DEF Answers, InOrder

(* What comes before them is the end of one late reply, or nothing. *)
LEMMA LateIs ==
    ASSUME WireAssumption, NEW s \in Late
    PROVE  s = <<>> \/ \E x : s = <<x>> /\ SegmentOK(x, TRUE) /\ x.d \in LateReplies
<1>1. CASE s = <<>>
  BY <1>1
<1>2. CASE s # <<>>
  <2>1. PICK d \in LateReplies : \E from \in 1 .. Len(Written(d)) : s = <<Segment(d, from)>>
    BY <1>2 DEF Late
  <2>a. PICK from \in 1 .. Len(Written(d)) : s = <<Segment(d, from)>>
    BY <2>1
  <2>2. d \in AnyReply
    BY <2>1 DEF WireAssumption, AnyReply
  <2>3. Len(Written(d)) \in Nat
    BY <2>2, WrittenType
  <2> DEFINE x == Segment(d, from)
  <2>4. x.d = d /\ x.from = from /\ x.bytes = SubSeq(Written(d), from, Len(Written(d)))
    BY DEF Segment
  <2> HIDE DEF x
  <2>5. SegmentOK(x, TRUE)
    BY <2>a, <2>2, <2>3, <2>4 DEF SegmentOK
  <2>6. QED
    BY <2>1, <2>a, <2>4, <2>5 DEF x
<1>3. QED
  BY <1>1, <1>2

LEMMA AnswersAreSent ==
    ASSUME WireAssumption, NEW late \in Late, NEW k, NEW s, Answers(k, s)
    PROVE  LET segs == late \o s IN Sent(segs) /\ (NoneLate(segs) => InOrder(k, segs))
<1> DEFINE segs == late \o s
           m == Len(s)
<1>1. s \in Seq(Wholes) /\ m \in Nat /\ DOMAIN s = 1 .. m
  BY LenProperties DEF Answers
<1>2. \A i \in 1 .. m : s[i].from = 1 /\ \A first : SegmentOK(s[i], first)
  <2>1. \A i \in 1 .. m : s[i] \in Wholes
    BY <1>1, ElementOfSeq
  <2>2. \A i \in 1 .. m : s[i].from = 1 /\ SegmentOK(s[i], FALSE)
    BY <2>1, WholeIs
  <2>3. QED
    BY <2>2 DEF SegmentOK
<1>3. CASE late = <<>>
  <2>1. segs = s
    BY <1>1, <1>3, ConcatEmptySeq
  <2> HIDE DEF segs
  <2>2. Sent(s)
    BY <1>1, <1>2 DEF Sent
  <2>3. QED
    BY <2>1, <2>2 DEF Answers, segs
<1>4. CASE late # <<>>
  <2>1. PICK x : late = <<x>> /\ SegmentOK(x, TRUE) /\ x.d \in LateReplies
    BY <1>4, LateIs
  <2>2. /\ Len(segs) = m + 1 /\ DOMAIN segs = 1 .. m + 1
        /\ segs[1] = x /\ \A i \in 2 .. m + 1 : segs[i] = s[i - 1]
    <3> DEFINE A == Wholes \cup {x}
    <3>1. <<x>> \in Seq(A) /\ s \in Seq(A) /\ Len(<<x>>) = 1 /\ <<x>>[1] = x
      BY <1>1
    <3>2. segs = <<x>> \o s
      BY <2>1
    <3> HIDE DEF A, segs
    <3>3. QED
      BY <1>1, <3>1, <3>2, ConcatProperties
  <2> HIDE DEF segs
  <2>3. Sent(segs)
    <3>1. SegmentOK(segs[1], 1 = 1)
      BY <2>1, <2>2
    <3>2. \A i \in 2 .. m + 1 : i - 1 \in 1 .. m /\ SegmentOK(segs[i], i = 1)
      BY <1>1, <1>2, <2>2
    <3>3. QED
      BY <1>1, <2>2, <3>1, <3>2 DEF Sent
  <2>4. \A i \in 2 .. m + 1 : i - 1 \in 1 .. m /\ segs[i] = s[i - 1]
    BY <1>1, <2>2
  <2>5. ASSUME NoneLate(segs) PROVE InOrder(k, segs)
    <3>1. x.from # 1
      BY <2>1, <2>2, <2>5 DEF NoneLate
    <3>2. \A i \in 1 .. m + 1 : segs[i].from = 1 => i \in 2 .. m + 1
      BY <1>1, <2>2, <3>1
    <3>3. ASSUME OnlyKeysFollow(s) PROVE OnlyKeysFollow(segs)
      <4>1. SUFFICES ASSUME NEW i \in 1 .. m + 1, NEW j \in 1 .. m + 1,
                            i < j, segs[i].from = 1, Closes(segs[i].d)
                     PROVE  segs[j].d \in Keys
        BY <2>2 DEF OnlyKeysFollow
      <4>2. i \in 2 .. m + 1 /\ j \in 2 .. m + 1 /\ i - 1 < j - 1
        BY <1>1, <3>2, <4>1
      <4>3. QED
        BY <2>4, <3>3, <4>1, <4>2 DEF OnlyKeysFollow
    <3>4. ASSUME k = "kgp", RepliesLate(s), BarriersFirst(s) PROVE InOrder(k, segs)
      <4>1. RepliesLate(segs)
        <5>1. PICK i \in 1 .. m, j \in 1 .. m :
                     i < j /\ s[i].from = 1 /\ s[i].d.t = "da1" /\ s[j].d.t = "kgp"
          BY <1>1, <3>4 DEF RepliesLate
        <5>2. /\ i + 1 \in 2 .. m + 1 /\ j + 1 \in 2 .. m + 1 /\ i + 1 < j + 1
              /\ i + 1 - 1 = i /\ j + 1 - 1 = j
          BY <1>1, <5>1
        <5>3. segs[i + 1] = s[i] /\ segs[j + 1] = s[j]
          BY <2>4, <5>2
        <5>4. i + 1 \in DOMAIN segs /\ j + 1 \in DOMAIN segs
          BY <2>2, <5>2
        <5>5. QED
          BY <5>1, <5>2, <5>3, <5>4 DEF RepliesLate
      <4>2. BarriersFirst(segs)
        <5>1. SUFFICES ASSUME NEW i \in 1 .. m + 1, NEW j \in 1 .. m + 1,
                              segs[i].from = 1, segs[j].from = 1,
                              segs[i].d.t = "kgp", segs[j].d.t = "da1"
                       PROVE  j < i
          BY <2>2 DEF BarriersFirst
        <5>2. i \in 2 .. m + 1 /\ j \in 2 .. m + 1
          BY <3>2, <5>1
        <5>3. /\ i - 1 \in 1 .. m /\ segs[i] = s[i - 1]
              /\ j - 1 \in 1 .. m /\ segs[j] = s[j - 1]
          BY <2>4, <5>2
        <5>5. j - 1 < i - 1
          BY <3>4, <5>1, <5>3 DEF BarriersFirst
        <5>4. QED
          BY <5>2, <5>5
      <4>3. QED
        BY <3>4, <4>1, <4>2 DEF InOrder
    <3>5. QED
      BY <3>3, <3>4 DEF Answers, InOrder
  <2>6. QED
    BY <2>3, <2>5 DEF segs
<1>5. QED
  BY <1>3, <1>4

(* Of more pieces the concatenation is not shorter. *)
LEMMA FlatGrows ==
    ASSUME NEW B, NEW s \in Seq(Seq(B)), NEW j \in Nat, NEW k \in Nat, j <= k, k <= Len(s)
    PROVE  /\ Len(Flat(s, j)) \in Nat /\ Len(Flat(s, k)) \in Nat
           /\ Len(Flat(s, j)) <= Len(Flat(s, k))
<1> DEFINE L(i) == Len(Flat(s, i))
           S == {i \in Nat : j <= i /\ i <= Len(s) => L(j) <= L(i)}
<1>1. Len(s) \in Nat
  BY LenProperties
<1>2. \A i \in Nat : i <= Len(s) => L(i) \in Nat
  BY FlatPrefix
<1>3. \A i \in Nat : i < Len(s) => L(i) <= L(i + 1)
  <2> SUFFICES ASSUME NEW i \in Nat, i < Len(s) PROVE L(i) <= L(i + 1)
    OBVIOUS
  <2>1. L(i) \in Nat /\ Len(s[i + 1]) \in Nat /\ L(i + 1) = L(i) + Len(s[i + 1])
    BY PieceAt
  <2> HIDE DEF L
  <2>2. QED
    BY <2>1
<1> HIDE DEF L
<1>4. 0 \in S
  BY <1>1, <1>2
<1>5. ASSUME NEW i \in Nat, i \in S PROVE i + 1 \in S
  <2> SUFFICES ASSUME j <= i + 1, i + 1 <= Len(s) PROVE L(j) <= L(i + 1)
    OBVIOUS
  <2>1. CASE j = i + 1
    BY <1>2, <2>1
  <2>2. CASE j <= i
    <3>1. i < Len(s) /\ i <= Len(s) /\ j <= Len(s)
      BY <1>1, <2>2
    <3>2. L(j) <= L(i) /\ L(i) <= L(i + 1)
      BY <1>3, <1>5, <2>2, <3>1
    <3>3. L(j) \in Nat /\ L(i) \in Nat /\ L(i + 1) \in Nat
      BY <1>2, <3>1
    <3>4. QED
      BY <3>2, <3>3
  <2>3. QED
    BY <2>1, <2>2
<1> HIDE DEF S
<1>6. \A i \in Nat : i \in S
  BY <1>4, <1>5, Induction
<1>7. L(j) <= L(k) /\ j <= Len(s)
  BY <1>1, <1>6 DEF S
<1>8. QED
  BY <1>2, <1>7 DEF L

(* Which event of what was read a segment is, if it is one. *)
FoundAt(p, segs, r, k) == Len(Flat(Events(p, segs, r), k - 1)) + 1

(* The events that are parsed are those of the replies read whole, in the  *)
(* order of the replies.                                                   *)
LEMMA EventPlaces ==
    ASSUME NEW segs, Sent(segs), NEW r \in 0 .. Len(Stream(segs)), NEW p \in ParserNames
    PROVE  LET found == Parse(p, SubSeq(Stream(segs), 1, r))
               Is(k) == EventOf(p, segs, r, k) # None IN
           /\ DOMAIN found \subseteq Nat
           /\ found # <<>> => 1 \in DOMAIN found
           /\ \A k \in 1 .. Len(segs) : Is(k) =>
                /\ FoundAt(p, segs, r, k) \in DOMAIN found
                /\ found[FoundAt(p, segs, r, k)] = EventOf(p, segs, r, k)
           /\ \A i \in DOMAIN found : \E k \in 1 .. Len(segs) : Is(k) /\ i = FoundAt(p, segs, r, k)
           /\ \A j, k \in 1 .. Len(segs) :
                j < k /\ Is(j) /\ Is(k) => FoundAt(p, segs, r, j) < FoundAt(p, segs, r, k)
<1> DEFINE m == Len(segs)
           E == Events(p, segs, r)
           X == {EventOf(p, segs, r, k) : k \in 1 .. m}
           found == Parse(p, SubSeq(Stream(segs), 1, r))
           Is(k) == EventOf(p, segs, r, k) # None
           L(k) == Len(Flat(E, k))
<1>1. m \in Nat
  BY DEF Sent
<1>2. \A k \in 1 .. m : E[k] = IF Is(k) THEN <<EventOf(p, segs, r, k)>> ELSE <<>>
  BY DEF Events
<1>3. E \in Seq(Seq(X)) /\ Len(E) = m
  <2>1. \A k \in 1 .. m : EventOf(p, segs, r, k) \in X
    OBVIOUS
  <2> HIDE DEF X
  <2>2. \A x \in X : <<x>> \in Seq(X)
    OBVIOUS
  <2>3. \A k \in 1 .. m : E[k] \in Seq(X)
    BY <1>2, <2>1, <2>2, EmptySeq
  <2>4. E = [k \in 1 .. m |-> E[k]]
    BY DEF Events
  <2> HIDE DEF E, Is
  <2>5. QED
    BY <1>1, <2>3, <2>4
<1>4. found = FlattenSeq(E)
  BY ParseIs
<1>a. \A k \in 1 .. m : FoundAt(p, segs, r, k) = L(k - 1) + 1
  BY DEF FoundAt
<1> HIDE DEF E, X, m, found
<1>5. found \in Seq(X) /\ Len(found) \in Nat /\ DOMAIN found = 1 .. Len(found)
  BY <1>3, <1>4, FlattenType, LenProperties
<1>6. DOMAIN found \subseteq Nat /\ (found # <<>> => 1 \in DOMAIN found)
  BY <1>5
<1>7. ASSUME NEW k \in 1 .. m, Is(k)
      PROVE  /\ L(k - 1) \in Nat /\ L(k) = L(k - 1) + 1 /\ L(k) <= Len(found)
             /\ found[L(k - 1) + 1] = EventOf(p, segs, r, k)
  <2> DEFINE h == k - 1
             e == EventOf(p, segs, r, k)
  <2>1. h \in Nat /\ h < Len(E) /\ h + 1 = k
    BY <1>1, <1>3
  <2> HIDE DEF h
  <2>2. /\ L(h) \in Nat /\ Len(E[h + 1]) \in Nat /\ L(h + 1) = L(h) + Len(E[h + 1])
        /\ L(h) + Len(E[h + 1]) <= Len(FlattenSeq(E))
        /\ \A i \in 1 .. Len(E[h + 1]) : FlattenSeq(E)[L(h) + i] = E[h + 1][i]
    BY <1>3, <2>1, PieceAt
  <2>3. E[h + 1] = <<e>>
    BY <1>2, <1>7, <2>1
  <2> HIDE DEF e, L, Is
  <2>4. Len(<<e>>) = 1 /\ <<e>>[1] = e
    OBVIOUS
  <2>5. L(h) \in Nat /\ L(k) = L(h) + 1 /\ L(k) <= Len(found) /\ found[L(h) + 1] = e
    BY <1>4, <2>1, <2>2, <2>3, <2>4
  <2>6. QED
    BY <2>5 DEF h, e
<1>8. ASSUME NEW i \in DOMAIN found PROVE \E k \in 1 .. m : Is(k) /\ i = L(k - 1) + 1
  <2>1. i \in 1 .. Len(FlattenSeq(E))
    BY <1>4, <1>5
  <2>2. PICK h \in Nat : h < Len(E) /\ L(h) < i /\ i <= L(h + 1)
    BY <1>3, <2>1, InAPiece
  <2>3. L(h) \in Nat /\ Len(E[h + 1]) \in Nat /\ L(h + 1) = L(h) + Len(E[h + 1])
    BY <1>3, <2>2, PieceAt
  <2>4. h + 1 \in 1 .. m /\ h + 1 - 1 = h
    BY <1>1, <1>3, <2>2
  <2> DEFINE e == EventOf(p, segs, r, h + 1)
  <2>5. E[h + 1] = IF Is(h + 1) THEN <<e>> ELSE <<>>
    BY <1>2, <2>4
  <2> HIDE DEF e, L, Is
  <2>6. Len(<<>>) = 0 /\ Len(<<e>>) = 1
    OBVIOUS
  <2>7. Is(h + 1) /\ i = L(h) + 1
    BY <2>1, <2>2, <2>3, <2>5, <2>6
  <2>8. QED
    BY <2>4, <2>7
<1>9. ASSUME NEW j \in 1 .. m, NEW k \in 1 .. m, j < k, Is(j), Is(k)
      PROVE  L(j - 1) + 1 < L(k - 1) + 1
  <2>1. j \in Nat /\ k - 1 \in Nat /\ j <= k - 1 /\ k - 1 <= Len(E)
    BY <1>1, <1>3, <1>9
  <2>2. L(j) <= L(k - 1) /\ L(k - 1) \in Nat
    BY <1>3, <2>1, FlatGrows
  <2>3. L(j - 1) \in Nat /\ L(j) = L(j - 1) + 1
    BY <1>7, <1>9
  <2> HIDE DEF L
  <2>4. QED
    BY <2>2, <2>3
<1> HIDE DEF L, Is
<1>10. \A k \in 1 .. m : Is(k) => L(k - 1) + 1 \in DOMAIN found
  BY <1>5, <1>7
<1>11. QED
  BY <1>a, <1>6, <1>7, <1>8, <1>9, <1>10 DEF Is, m, found

(* An event that is parsed is that of a reply read whole. *)
LEMMA EventRead ==
    ASSUME NEW segs, Sent(segs), NEW r \in 0 .. Len(Stream(segs)), NEW p \in ParserNames
    PROVE  LET found == Parse(p, SubSeq(Stream(segs), 1, r)) IN
           /\ found # <<>> => 1 \in DOMAIN found
           /\ \A i \in DOMAIN found : \E k \in 1 .. Len(segs) :
                EventOf(p, segs, r, k) # None /\ found[i] = EventOf(p, segs, r, k)
  BY EventPlaces

(* Which replies close an exchange. *)
LEMMA ClosingEvent ==
    ASSUME NEW d \in AnyReply \cup Keys, NEW next, NEW p \in ParserNames,
           Expected(p, d, next) # None,
           p \in {"kgp", "sixel"} => Expected(p, d, next).role = "barrier",
           p # "pixels"
    PROVE  Closes(d)
<1>1. CASE d \in KgpReply
  <2>1. p = "kgp" /\ Expected(p, d, next) = ReplyEvent(d.control, d.status, next)
    BY <1>1, ExpectedIs
  <2>2. QED
    BY <2>1 DEF ReplyEvent
<1>2. CASE d \in Da1Reply
  BY <1>2 DEF Closes, Da1Reply
<1>3. CASE d \in Report
  <2>1. p = "cells"
    BY <1>3, ExpectedReport DEF ParserNames
  <2>2. d.code = "8"
    BY <1>3, <2>1, ExpectedReport DEF Code
  <2>3. QED
    BY <1>3, <2>2 DEF Closes, Report
<1>4. CASE d \in Keys
  BY <1>4, ExpectedIs DEF Keys
<1>5. QED
  BY <1>1, <1>2, <1>3, <1>4 DEF AnyReply

(* Which of the replies ends the collection. *)
LEMMA StoppedAt ==
    ASSUME NEW segs, Sent(segs), NEW r \in 0 .. Len(Stream(segs)),
           NEW k \in {"kgp", "sixel", "geometry"}, Stops(k, SubSeq(Stream(segs), 1, r))
    PROVE  \E i \in 1 .. Len(segs) : segs[i].from = 1 /\ Closes(segs[i].d) /\ End(segs, i) <= r
<1> DEFINE read == SubSeq(Stream(segs), 1, r)
           p == IF k = "geometry" THEN "cells" ELSE k
<1>1. p \in ParserNames /\ p # "pixels"
  BY DEF ParserNames
<1>2. PICK n \in DOMAIN Parse(p, read) :
             p \in {"kgp", "sixel"} => Parse(p, read)[n].role = "barrier"
  <2>1. CASE k = "geometry"
    <3>1. p = "cells" /\ Parse(p, read) # <<>>
      BY <2>1 DEF Stops
    <3>2. 1 \in DOMAIN Parse(p, read)
      BY <1>1, <3>1, EventRead
    <3>3. QED
      BY <3>1, <3>2
  <2>2. CASE k # "geometry"
    BY <2>2 DEF Stops, Roles
  <2>3. QED
    BY <2>1, <2>2
<1>3. PICK i \in 1 .. Len(segs) :
             EventOf(p, segs, r, i) # None /\ Parse(p, read)[n] = EventOf(p, segs, r, i)
  <2> HIDE DEF p
  <2>1. QED
    BY <1>1, <1>2, EventRead
<1>4. /\ segs[i].from = 1 /\ End(segs, i) <= r
      /\ EventOf(p, segs, r, i) = Expected(p, segs[i].d, End(segs, i) + 1)
  BY <1>3 DEF EventOf
<1>5. segs[i].d \in AnyReply \cup Keys
  BY DEF Sent, SegmentOK
<1> HIDE DEF p, read
<1>6. Closes(segs[i].d)
  BY <1>1, <1>2, <1>3, <1>4, <1>5, ClosingEvent
<1>7. QED
  BY <1>4, <1>6

(* Nothing that comes after it is an event. *)
LEMMA NothingFollows ==
    ASSUME NEW segs, Sent(segs), OnlyKeysFollow(segs), NEW r \in 0 .. Len(Stream(segs)),
           NEW i \in 1 .. Len(segs), segs[i].from = 1, Closes(segs[i].d), End(segs, i) <= r,
           NEW p \in ParserNames
    PROVE  Parse(p, SubSeq(Stream(segs), 1, r)) = Parse(p, Stream(segs))
<1> DEFINE m == Len(segs)
           l == Len(Stream(segs))
<1>1. m \in Nat /\ l \in Nat /\ Stream(segs) \in Seq(Alphabet)
  BY SentIs DEF Sent
<1>2. \A k \in 1 .. m : EventOf(p, segs, r, k) = EventOf(p, segs, l, k)
  <2> SUFFICES ASSUME NEW k \in 1 .. m
               PROVE  EventOf(p, segs, r, k) = EventOf(p, segs, l, k)
    OBVIOUS
  <2>1. CASE k <= i
    <3>1. End(segs, k) \in Nat /\ End(segs, i) \in Nat /\ End(segs, k) <= End(segs, i)
      <4>1. k \in Nat /\ i \in Nat /\ k <= Len(segs) /\ i <= Len(segs)
        BY <1>1
      <4>2. QED
        BY <2>1, <4>1, EndsGrow
    <3>2. End(segs, k) <= r /\ End(segs, k) <= l
      BY <1>1, <3>1
    <3> HIDE DEF l
    <3>3. QED
      BY <3>2 DEF EventOf
  <2>2. CASE ~(k <= i)
    <3>1. i < k
      BY <1>1, <2>2
    <3>2. segs[k].d \in Keys
      BY <3>1 DEF OnlyKeysFollow
    <3>3. \A next : Expected(p, segs[k].d, next) = None
      BY <3>2, ExpectedIs DEF Keys
    <3> HIDE DEF l
    <3>4. QED
      BY <3>3 DEF EventOf
  <2>3. QED
    BY <2>1, <2>2
<1>3. Events(p, segs, r) = Events(p, segs, l)
  <2> HIDE DEF l
  <2>1. QED
    BY <1>2 DEF Events
<1>4. SubSeq(Stream(segs), 1, l) = Stream(segs)
  BY <1>1, SubSeqFull
<1>5. Parse(p, SubSeq(Stream(segs), 1, l)) = FlattenSeq(Events(p, segs, l))
  <2>1. l \in 0 .. Len(Stream(segs))
    BY <1>1
  <2> HIDE DEF l
  <2>2. QED
    BY <2>1, ParseIs
<1>6. Parse(p, SubSeq(Stream(segs), 1, r)) = FlattenSeq(Events(p, segs, r))
  BY ParseIs
<1>7. QED
  BY <1>3, <1>4, <1>5, <1>6

(* The segments that are events of the KGP parser, by their roles. *)
LEMMA EventRole ==
    ASSUME NEW segs, Sent(segs), NEW r, NEW k \in 1 .. Len(segs), EventOf("kgp", segs, r, k) # None
    PROVE  /\ segs[k].from = 1 /\ End(segs, k) <= r
           /\ \/ segs[k].d.t = "kgp" /\ EventOf("kgp", segs, r, k).role = "reply"
              \/ segs[k].d.t = "da1" /\ EventOf("kgp", segs, r, k).role = "barrier"
<1> DEFINE d == segs[k].d
           next == End(segs, k) + 1
<1>1. /\ segs[k].from = 1 /\ End(segs, k) <= r
      /\ EventOf("kgp", segs, r, k) = Expected("kgp", d, next)
  BY DEF EventOf
<1>2. d \in AnyReply \cup Keys
  BY DEF Sent, SegmentOK
<1>3. Expected("kgp", d, next) # None
  BY <1>1
<1> HIDE DEF d, next
<1>4. CASE d \in KgpReply
  <2>1. d.t = "kgp" /\ Expected("kgp", d, next) = ReplyEvent(d.control, d.status, next)
    BY <1>4, ExpectedIs DEF KgpReply
  <2>2. Expected("kgp", d, next).role = "reply"
    BY <2>1 DEF ReplyEvent
  <2>3. QED
    BY <1>1, <2>1, <2>2 DEF d
<1>5. CASE d \in Da1Reply
  <2>1. d.t = "da1" /\ Expected("kgp", d, next) = BarrierEvent(d.params, next)
    BY <1>3, <1>5, ExpectedIs DEF Da1Reply
  <2>2. Expected("kgp", d, next).role = "barrier"
    BY <2>1 DEF BarrierEvent
  <2>3. QED
    BY <1>1, <2>1, <2>2 DEF d
<1>6. d \notin Report /\ d \notin Keys
  BY <1>3, ExpectedIs, ExpectedReport DEF Keys, ParserNames
<1>7. QED
  BY <1>2, <1>4, <1>5, <1>6 DEF AnyReply

(* When every KGP reply follows the barrier, it is no conformant one: KGP  *)
(* is absent, or answers out of order.                                     *)
LEMMA LateVerdict ==
    ASSUME NEW segs, Sent(segs), BarriersFirst(segs), NEW r \in 0 .. Len(Stream(segs)),
           Roles(Parse("kgp", SubSeq(Stream(segs), 1, r)), "barrier") # {}
    PROVE  AssessKgp(Parse("kgp", SubSeq(Stream(segs), 1, r)))
               \in {<<"unavailable", "not_applicable">>, <<"available", "nonconformant">>}
<1> DEFINE found == Parse("kgp", SubSeq(Stream(segs), 1, r))
           barrier == Roles(found, "barrier")
           reply == Roles(found, "reply")
           own == {i \in reply : found[i].own}
           Is(k) == EventOf("kgp", segs, r, k) # None
           P(k) == FoundAt("kgp", segs, r, k)
<1>1. /\ DOMAIN found \subseteq Nat
      /\ \A k \in 1 .. Len(segs) : Is(k) => found[P(k)] = EventOf("kgp", segs, r, k)
      /\ \A i \in DOMAIN found : \E k \in 1 .. Len(segs) : Is(k) /\ i = P(k)
      /\ \A j, k \in 1 .. Len(segs) : j < k /\ Is(j) /\ Is(k) => P(j) < P(k)
  BY EventPlaces DEF ParserNames
<1>2. \A k \in 1 .. Len(segs) : Is(k) =>
        /\ segs[k].from = 1
        /\ EventOf("kgp", segs, r, k).role = "reply" => segs[k].d.t = "kgp"
        /\ EventOf("kgp", segs, r, k).role = "barrier" => segs[k].d.t = "da1"
  BY EventRole
<1> HIDE DEF found, P, Is
<1>3. barrier \subseteq Nat /\ own \subseteq Nat /\ own \subseteq reply
  BY <1>1 DEF Roles
<1>4. \A b \in barrier : \A q \in reply : b < q
  <2> SUFFICES ASSUME NEW b \in barrier, NEW q \in reply PROVE b < q
    OBVIOUS
  <2>1. /\ b \in DOMAIN found /\ found[b].role = "barrier"
        /\ q \in DOMAIN found /\ found[q].role = "reply"
    BY DEF Roles
  <2>2. PICK j \in 1 .. Len(segs) : Is(j) /\ b = P(j)
    BY <1>1, <2>1
  <2>3. PICK k \in 1 .. Len(segs) : Is(k) /\ q = P(k)
    BY <1>1, <2>1
  <2>4. segs[j].from = 1 /\ segs[k].from = 1 /\ segs[j].d.t = "da1" /\ segs[k].d.t = "kgp"
    BY <1>1, <1>2, <2>1, <2>2, <2>3
  <2>5. j < k
    BY <2>4 DEF BarriersFirst
  <2>6. QED
    BY <1>1, <2>2, <2>3, <2>5
<1>5. barrier # {}
  BY DEF found
<1> DEFINE first == found[Least(own)]
<1>6. AssessKgp(found) =
        CASE own # {} -> <<"available",
                CASE barrier = {} -> "inconclusive"
                  [] barrier # {} /\ first.status = <<"OK">> /\ Least(own) < Least(barrier)
                       -> "conformant"
                  [] OTHER -> "nonconformant">>
          [] own = {} /\ reply # {} -> <<"available", "nonconformant">>
          [] reply = {} /\ barrier # {} -> <<"unavailable", "not_applicable">>
          [] OTHER -> <<"unknown", "inconclusive">>
  BY DEF AssessKgp
<1> HIDE DEF own, barrier, reply, first
<1>7. CASE own # {}
  <2>1. Least(own) \in own /\ Least(barrier) \in barrier
    BY <1>3, <1>5, <1>7, LeastOf
  <2>2. Least(own) \in Nat /\ Least(barrier) \in Nat /\ Least(barrier) < Least(own)
    BY <1>3, <1>4, <2>1
  <2>3. ~(Least(own) < Least(barrier))
    BY <2>2
  <2>4. reply # {}
    BY <1>3, <1>7
  <2>5. AssessKgp(found) = <<"available", "nonconformant">>
    BY <1>5, <1>6, <1>7, <2>3, <2>4
  <2>6. QED
    BY <2>5 DEF found
<1>8. CASE own = {} /\ reply # {}
  <2>1. AssessKgp(found) = <<"available", "nonconformant">>
    BY <1>5, <1>6, <1>8
  <2>2. QED
    BY <2>1 DEF found
<1>9. CASE reply = {}
  <2>1. own = {}
    BY <1>3, <1>9
  <2>2. AssessKgp(found) = <<"unavailable", "not_applicable">>
    BY <1>5, <1>6, <1>9, <2>1
  <2>3. QED
    BY <2>2 DEF found
<1>10. QED
  BY <1>7, <1>8, <1>9

(* A barrier that has been read remains one when more is read. *)
LEMMA BarrierStays ==
    ASSUME NEW segs, Sent(segs), NEW r \in 0 .. Len(Stream(segs)),
           Roles(Parse("kgp", SubSeq(Stream(segs), 1, r)), "barrier") # {}
    PROVE  LET l == Len(Stream(segs)) IN
           Roles(Parse("kgp", SubSeq(Stream(segs), 1, l)), "barrier") # {}
<1> DEFINE l == Len(Stream(segs))
           read == Parse("kgp", SubSeq(Stream(segs), 1, r))
           all == Parse("kgp", SubSeq(Stream(segs), 1, l))
<1>1. PICK n \in DOMAIN read : read[n].role = "barrier"
  BY DEF Roles
<1>2. PICK k \in 1 .. Len(segs) :
             EventOf("kgp", segs, r, k) # None /\ read[n] = EventOf("kgp", segs, r, k)
  <2>1. "kgp" \in ParserNames
    BY DEF ParserNames
  <2>2. QED
    BY <1>1, <2>1, EventRead
<1>3. l \in Nat /\ Len(segs) \in Nat
  BY SentIs DEF Sent
<1>4. segs[k].from = 1 /\ End(segs, k) <= r /\ End(segs, k) \in Nat
  BY <1>2, <1>3, EventRole, EndsGrow
<1>5. End(segs, k) <= l /\ l \in 0 .. Len(Stream(segs))
  BY <1>3, <1>4
<1> HIDE DEF l, read, all
<1>6. EventOf("kgp", segs, l, k) = EventOf("kgp", segs, r, k)
  BY <1>4, <1>5 DEF EventOf
<1>7. /\ FoundAt("kgp", segs, l, k) \in DOMAIN all
      /\ all[FoundAt("kgp", segs, l, k)] = EventOf("kgp", segs, l, k)
  <2>1. "kgp" \in ParserNames
    BY DEF ParserNames
  <2>2. QED
    BY <1>2, <1>5, <1>6, <2>1, EventPlaces DEF all
<1>8. Roles(all, "barrier") # {}
  BY <1>1, <1>2, <1>6, <1>7 DEF Roles
<1>9. QED
  BY <1>8 DEF all, l

LEMMA WireInvHolds == WireSpec => []WireInv
<1>1. WireInit => WireInv
  <2> SUFFICES ASSUME WireInit PROVE WireInv
    OBVIOUS
  <2>1. Sent(segments)
    BY DEF WireInit, Sent
  <2>2. Stream(segments) = <<>>
    <3>1. [i \in DOMAIN segments |-> segments[i].bytes] = <<>>
      BY DEF WireInit
    <3>2. QED
      BY <3>1, FlattenEmpty DEF Stream
  <2>3. ~NoneLate(segments)
    BY DEF WireInit, NoneLate
  <2>4. QED
    BY <2>1, <2>2, <2>3 DEF WireInit, WireInv
<1>2. WireInv /\ [WireNext]_wireVars => WireInv'
  <2> SUFFICES ASSUME WireInv, [WireNext]_wireVars PROVE WireInv'
    OBVIOUS
  <2> USE WireAssumption
  <2>1. CASE Send
    BY <2>1 DEF Send, fixed, WireInv, Sent, SegmentOK, Stream, NoneLate, InOrder,
       OnlyKeysFollow, RepliesLate, BarriersFirst, got
  <2>2. CASE Answer
    <3>1. PICK late \in Late, replies \in Replies(kind) :
                 \E typed \in WithKey(replies) : segments' = late \o typed
      BY <2>2 DEF Answer
    <3>2. PICK typed \in WithKey(replies) : segments' = late \o typed
      BY <3>1
    <3>3. kind \in {"kgp", "sixel", "geometry"}
      BY <2>2 DEF Answer, WireInv, WireAssumption
    <3>4. Answers(kind, replies)
      BY <3>3, RepliesAnswer
    <3>5. Answers(kind, typed)
      <4>1. CASE typed = replies
        BY <3>4, <4>1
      <4>2. CASE typed # replies
        <5> DEFINE K(n, k) == InsertAt(replies, n, Whole([t |-> "key", key |-> k]))
        <5>a. WithKey(replies) =
                {replies} \cup {K(n, k) : n \in 1 .. Len(replies) + 1, k \in KeyInputs}
          BY DEF WithKey
        <5> HIDE DEF K
        <5>b. \E n \in 1 .. Len(replies) + 1 : \E k \in KeyInputs : typed = K(n, k)
          BY <3>2, <4>2, <5>a
        <5>1. PICK n \in 1 .. Len(replies) + 1, k \in KeyInputs : typed = K(n, k)
          BY <5>b
        <5>2. [t |-> "key", key |-> k] \in Keys
          BY DEF Keys, WireAssumption
        <5>3. QED
          BY <3>4, <5>1, <5>2, KeyInserted DEF K
      <4>3. QED
        BY <4>1, <4>2
    <3> DEFINE segs == late \o typed
    <3>6. Sent(segs) /\ (NoneLate(segs) => InOrder(kind, segs))
      BY <3>5, AnswersAreSent
    <3> HIDE DEF segs
    <3>7. segments' = segs /\ stream' = Stream(segs) /\ Len(Stream(segs)) \in Nat
      BY <2>2, <3>2, <3>6, SentIs DEF Answer, segs
    <3>8. /\ kind' = kind /\ phase' = "test" /\ arrived' = 0 /\ phase = "answer"
          /\ stopped' = stopped
      BY <2>2 DEF Answer, fixed, WireInv
    <3>9. Sent(segments)' /\ (NoneLate(segments) => InOrder(kind, segments))'
      BY <3>6, <3>7, <3>8 DEF Sent, SegmentOK, NoneLate, InOrder,
       OnlyKeysFollow, RepliesLate, BarriersFirst
    <3>10. (stream = Stream(segments))' /\ (arrived \in 0 .. Len(stream))'
      BY <3>7, <3>8
    <3>11. ~stopped'
      BY <3>8 DEF WireInv
    <3>12. QED
      BY <3>8, <3>9, <3>10, <3>11 DEF WireInv
  <2>3. CASE Test
    <3>1. /\ kind' = kind /\ segments' = segments /\ stream' = stream /\ arrived' = arrived
          /\ phase = "test" /\ stopped' = Stops(kind, got)
          /\ phase' = IF stopped' THEN "done" ELSE "read"
      BY <2>3 DEF Test, fixed
    <3>2. (stopped => phase = "done" /\ kind # "image" /\ Stops(kind, got))'
      <4>1. got' = got /\ Stops(kind, got)' = Stops(kind, got)
        BY <3>1 DEF got
      <4>2. QED
        BY <3>1, <4>1 DEF WireInv
    <3>3. QED
      BY <3>1, <3>2 DEF WireInv, Sent, SegmentOK, Stream, NoneLate, InOrder,
       OnlyKeysFollow, RepliesLate, BarriersFirst
  <2>4. CASE Read
    <3>1. /\ kind' = kind /\ segments' = segments /\ stream' = stream /\ stopped' = stopped
          /\ phase = "read" /\ phase' = "test" /\ arrived' \in arrived + 1 .. Len(stream)
      BY <2>4 DEF Read, fixed
    <3>2. ~stopped' /\ arrived' \in 0 .. Len(stream)
      <4>1. arrived \in Nat /\ ~stopped
        BY <3>1 DEF WireInv
      <4>2. QED
        BY <3>1, <4>1
    <3>3. QED
      BY <3>1, <3>2 DEF WireInv, Sent, SegmentOK, Stream, NoneLate, InOrder,
       OnlyKeysFollow, RepliesLate, BarriersFirst
  <2>5. CASE UNCHANGED wireVars
    BY <2>5 DEF wireVars, WireInv, Sent, SegmentOK, Stream, NoneLate, InOrder,
       OnlyKeysFollow, RepliesLate, BarriersFirst, got
  <2>6. QED
    BY <2>1, <2>2, <2>3, <2>4, <2>5 DEF WireNext
<1>3. QED
  BY <1>1, <1>2, PTL DEF WireSpec

(* After every read the parsers have found exactly the well-formed replies *)
(* that have come whole, each at its place (parse_exchange,                *)
(* parse_responses, parse_window_pixels, parse_window_cells).              *)
THEOREM RepliesCorrect == WireSpec => []RepliesAreRecognised
<1>1. WireInv => RepliesAreRecognised
  <2> SUFFICES ASSUME WireInv, phase \in {"read", "done"}, kind # "image", NEW p \in Parsers(kind)
               PROVE  Parse(p, got) = Complete(p, arrived)
    BY DEF RepliesAreRecognised
  <2>1. p \in ParserNames
    BY WireAssumption DEF WireInv, WireAssumption, Parsers, ParserNames
  <2>2. Sent(segments) /\ stream = Stream(segments) /\ arrived \in 0 .. Len(Stream(segments))
    BY DEF WireInv
  <2>3. Parse(p, got) = FlattenSeq(Events(p, segments, arrived))
    BY <2>1, <2>2, ParseIs DEF got
  <2>4. QED
    BY <2>2, <2>3, CompleteIs
<1>2. QED
  BY <1>1, WireInvHolds, PTL

(* What was read when the collection stops is assessed like all that is    *)
(* sent: the reply that stops it is the last (kgp_stop_reason,             *)
(* da1_stop_reason, geometry_stop_reason). If a KGP reply comes after that *)
(* one, neither verdict is a conformant one, whether it was read or not.   *)
THEOREM SplitCorrect == WireSpec => []SplitDoesNotMatter
<1>1. WireInv => SplitDoesNotMatter
  <2> SUFFICES ASSUME WireInv, stopped, segments[1].from > 1 \/ segments[1].d \notin LateReplies
               PROVE  IF RepliesLate(segments)
                      THEN {Assess(kind, got), Assess(kind, stream)} \subseteq
                             {<<"unavailable", "not_applicable">>, <<"available", "nonconformant">>}
                      ELSE Assess(kind, got) = Assess(kind, stream)
    BY DEF SplitDoesNotMatter
  <2>1. Sent(segments) /\ stream = Stream(segments) /\ arrived \in 0 .. Len(Stream(segments))
    BY DEF WireInv
  <2>2. kind \in {"kgp", "sixel", "geometry"} /\ Stops(kind, SubSeq(Stream(segments), 1, arrived))
    BY <2>1, WireAssumption DEF WireInv, WireAssumption, got
  <2>3. PICK i \in 1 .. Len(segments) :
               segments[i].from = 1 /\ Closes(segments[i].d) /\ End(segments, i) <= arrived
    BY <2>1, <2>2, StoppedAt
  <2>4. InOrder(kind, segments)
    <3>1. segments # <<>>
      <4>1. Len(segments) # 0
        BY <2>1, <2>3 DEF Sent
      <4>2. QED
        BY <4>1
    <3>2. QED
      BY <3>1 DEF WireInv, NoneLate
  <2>5. CASE RepliesLate(segments)
    <3>1. ~OnlyKeysFollow(segments)
      <4>1. PICK j \in 1 .. Len(segments), k \in 1 .. Len(segments) :
                   /\ j < k /\ segments[j].from = 1
                   /\ segments[j].d.t = "da1" /\ segments[k].d.t = "kgp"
        BY <2>1, <2>5 DEF RepliesLate, Sent
      <4>2. Closes(segments[j].d) /\ segments[k].d \notin Keys
        BY <4>1 DEF Closes, Keys
      <4>3. QED
        BY <4>1, <4>2 DEF OnlyKeysFollow
    <3>2. kind = "kgp" /\ BarriersFirst(segments)
      BY <2>4, <3>1 DEF InOrder
    <3>3. Roles(Parse("kgp", SubSeq(Stream(segments), 1, arrived)), "barrier") # {}
      BY <2>2, <3>2 DEF Stops
    <3> DEFINE l == Len(Stream(segments))
    <3>4. l \in 0 .. Len(Stream(segments)) /\ SubSeq(Stream(segments), 1, l) = Stream(segments)
      BY <2>1, SentIs, SubSeqFull
    <3>5. Roles(Parse("kgp", SubSeq(Stream(segments), 1, l)), "barrier") # {}
      BY <2>1, <3>3, BarrierStays
    <3> HIDE DEF l
    <3>6. AssessKgp(Parse("kgp", SubSeq(Stream(segments), 1, arrived)))
            \in {<<"unavailable", "not_applicable">>, <<"available", "nonconformant">>}
      BY <2>1, <3>2, <3>3, LateVerdict
    <3>7. AssessKgp(Parse("kgp", SubSeq(Stream(segments), 1, l)))
            \in {<<"unavailable", "not_applicable">>, <<"available", "nonconformant">>}
      BY <2>1, <3>2, <3>4, <3>5, LateVerdict
    <3>8. /\ Assess(kind, got) = AssessKgp(Parse("kgp", SubSeq(Stream(segments), 1, arrived)))
          /\ Assess(kind, stream) = AssessKgp(Parse("kgp", SubSeq(Stream(segments), 1, l)))
      BY <2>1, <3>2, <3>4 DEF Assess, got
    <3>9. QED
      BY <2>5, <3>6, <3>7, <3>8
  <2>6. CASE ~RepliesLate(segments)
    <3>1. OnlyKeysFollow(segments)
      BY <2>4, <2>6 DEF InOrder
    <3>2. \A p \in ParserNames : Parse(p, got) = Parse(p, stream)
      <4> SUFFICES ASSUME NEW p \in ParserNames PROVE Parse(p, got) = Parse(p, stream)
        OBVIOUS
      <4>1. Parse(p, SubSeq(Stream(segments), 1, arrived)) = Parse(p, Stream(segments))
        BY <2>1, <2>3, <3>1, NothingFollows
      <4>2. QED
        BY <2>1, <4>1 DEF got
    <3>3. Assess(kind, got) = Assess(kind, stream)
      BY <2>2, <3>2 DEF Assess, ParserNames
    <3>4. QED
      BY <2>6, <3>3
  <2>7. QED
    BY <2>5, <2>6
<1>2. QED
  BY <1>1, WireInvHolds, PTL

(* The variables of an exchange have the values their comments tell, and   *)
(* the bytes are those of the segments (the collection loop of tty.rs).    *)
THEOREM WireTypeCorrect == WireSpec => []WireTypeOK
<1> DEFINE Fixed == transport \in Transports /\ chunks \in 1 .. MaxChunks /\ stopped \in BOOLEAN
<1>1. WireInit => Fixed
  <2>1. MaxChunks \in Nat \ {0}
    BY WireAssumption DEF WireAssumption
  <2>2. ASSUME WireInit PROVE chunks \in 1 .. MaxChunks
    <3>1. CASE kind = "image"
      BY <2>2, <3>1 DEF WireInit
    <3>2. CASE kind # "image"
      <4>1. chunks \in 1 .. 1
        BY <2>2, <3>2 DEF WireInit
      <4>2. QED
        BY <2>1, <4>1
    <3>3. QED
      BY <3>1, <3>2
  <2>3. QED
    BY <2>2 DEF WireInit
<1>2. Fixed /\ [WireNext]_wireVars => Fixed'
  <2> SUFFICES ASSUME Fixed, [WireNext]_wireVars PROVE Fixed'
    OBVIOUS
  <2>1. CASE Test
    <3>1. stopped' \in BOOLEAN
      BY <2>1 DEF Test, Stops
    <3>2. QED
      BY <2>1, <3>1 DEF Test, fixed
  <2>2. CASE ~Test
    BY <2>2 DEF WireNext, Send, Answer, Read, fixed, wireVars
  <2>3. QED
    BY <2>1, <2>2
<1>3. Fixed /\ WireInv => WireTypeOK
  BY DEF WireInv, WireTypeOK
<1>4. QED
  BY <1>1, <1>2, <1>3, WireInvHolds, PTL DEF WireSpec
=============================================================================
