SPECIFICATION CoreSpec
CONSTANTS
    MarkIds = {1, 2, 3}
    MaxPosition = 4
    NoMark = NoMark
    Texts <- MCTexts
    FirstMarks <- MCFirstMarks
    NewMarks <- MCNewMarks
    Anchors = {3}
INVARIANTS
    ValidationExact
PROPERTIES
    ResolutionsKeepBounds
    ResolutionsKeepViews
    ThreadsFollowAnchors

