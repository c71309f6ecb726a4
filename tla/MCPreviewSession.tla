-------------------------- MODULE MCPreviewSession --------------------------
(* Instances of PreviewSession for TLC. *)
EXTENDS PreviewSession

(* A pager of two lines with and without extent, and a window that is too  *)
(* low for an image.                                                       *)
Windows == {[rows |-> 4, px |-> 40], [rows |-> 4, px |-> 0], [rows |-> 2, px |-> 20]}
TextAndRaster == {<<"text", "auto">>, <<"raster", "auto">>, <<"raster", "sixel">>}
=============================================================================
