SPECIFICATION Spec
CONSTANTS
    Rows = {k1, k2}
    Targets = {"r1", "r2"}
    Layouts <- MCLayouts
    MaxTyped = 2
    MaxElsewhere = 1
INVARIANTS RowsStayValid RefusalIsExplained
PROPERTIES EntrySurvivesRefusal UntouchedIsKept CreatedAsShown
SYMMETRY MCSymmetry
CHECK_DEADLOCK FALSE
