\* Two layouts to undo (UNDO_LIMIT + 1), two edits, and as many undos, redos and saves as come.
CONSTANTS
    Ids <- Some
    Begin <- Opened
    NewTypes = {"CHART", "TABS"}
    UNDO_LIMIT = 1
    MaxEdits = 2
SPECIFICATION Spec
INVARIANTS TypeOK LayoutIsTree UnsavedShown
PROPERTY ChartsKept
CHECK_DEADLOCK FALSE
