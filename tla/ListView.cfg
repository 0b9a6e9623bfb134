SPECIFICATION Spec
CONSTANTS
  Content <- MCContent
  LastDay = 2
  FlagDefault = "true"
  DefaultOrdering = "-flag"
  Sortable = {"day"}
  AdminSize = 3
  DefaultPageSize = 2
  Sizes = {2, 3}
  MaxChanges = 1
  Nil = Nil
INVARIANTS LinksKeepTheRest SelectionIsList WalkCoversList PagerAgrees
