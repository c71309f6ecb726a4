--------------------------- MODULE MCArtifactView ---------------------------
(* An instance of ArtifactView for TLC: every file of up to four bytes, and *)
(* longer ones of letters and line ends, some over the limit.               *)
EXTENDS ArtifactView

Words(alphabet, n) == UNION {[1 .. k -> alphabet] : k \in 0 .. n}

SomeFiles ==
    Words(Bytes \ {"tab"}, 4) \cup Words({"a", "nl", "cr"}, 6)
    \cup {<<"a", "tab", "a", "a", "c2", "a9">>, <<"a", "a", "a", "a", "a", "nul">>}

SomeImages == [width : {1, 2, 7, 30}, height : {1, 2, 7, 30, 200}]

SomeNames == {<<"a", "esc", "9b", "c2", "9b", "a9">>}

SomeTextViews == [columns : {0, 1, 2, 3}, rows : {1, 3, 4}, width : {0}, height : {0}]

SomeImageViews ==
    [columns : {0, 1, 3, 30}, rows : {2, 3, 6}, width : {0, 1, 2, 33}, height : {0, 1, 5, 33}]
=============================================================================
