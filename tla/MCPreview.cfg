SPECIFICATION FairSpec
CONSTANTS
    Surfaces <- Windows
    Previews <- TextAndRaster
    Lines = 4
    ExitAfter = TRUE
    Keys = {"esc", "j"}
    MaxTypeahead = 2
    MaxReplies = 1
    MaxResizes = 1
    WritesMayFail = TRUE
INVARIANTS PixelsBelongToCells GuardRestores
PROPERTY QuitCloses
CHECK_DEADLOCK FALSE
