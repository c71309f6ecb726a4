SPECIFICATION Spec
CONSTANTS
    Files <- SomeFiles
    Images <- SomeImages
    Names <- SomeNames
    TextViews <- SomeTextViews
    ImageViews <- SomeImageViews
    MaxText = 5
INVARIANTS OnlyTabAndReturnPass RowsAreTheFile PagingSkipsNothing ImageFits
CHECK_DEADLOCK FALSE
