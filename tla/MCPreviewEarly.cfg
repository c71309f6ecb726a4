SPECIFICATION Spec
CONSTANTS
    Surfaces <- Windows
    Previews <- TextAndRaster
    Lines = 4
    ExitAfter = FALSE
    Keys = {"esc", "j"}
    MaxTypeahead = 1
    MaxReplies = 0
    MaxResizes = 0
    WritesMayFail = TRUE
INVARIANT EarlyErrorRestores
CHECK_DEADLOCK FALSE
