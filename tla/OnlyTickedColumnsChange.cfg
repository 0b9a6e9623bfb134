SPECIFICATION Spec
CONSTANTS
  NRecords = 2
  Columns = {"plan", "note"}
  Values = {"x", "y"}
  Filtered = "plan"
  Shown = "x"
  Previews = TRUE
  Hosted = {"form", "plain"}
  MaxCommits = 2
  Unused = Unused
  Gone = Gone
  Nil = Nil
PROPERTY OnlyTickedColumnsChange
