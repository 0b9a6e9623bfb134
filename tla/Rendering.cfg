SPECIFICATION Spec
CONSTANTS
  Base <- MCBase
  Framework = {"fr"}
  Nil = Nil
  Requests = {r1, r2}
  Principals = {ann}
  Deployments <- MCDeployments
  Headers <- MCHeaders
  Typed = {"en", "fr-CA", "en-XA"}
  Saved = {"fr"}
  Dirs <- MCDirs
  Files <- MCFiles
  Disks <- MCDisks
  Versions = {1, 2}
  Budgets <- MCBudgets
  Nobody = Nobody
  Missing = Missing
  Broken = Broken
INVARIANTS PageInOneLanguage ChoiceSticks SameVisitor OverridesFollowDisk
SYMMETRY MCSymmetry
