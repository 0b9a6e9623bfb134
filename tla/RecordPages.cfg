SPECIFICATION Spec
CONSTANTS
  Children = {k1, k2}
  Values = {a, b}
  MaxFlight = 2
  Nil = Nil
  Sites <- MCSites
  Roles <- MCRoles
  Rules <- MCRules
  Budgets <- MCBudgets
SYMMETRY MCSymmetry
CHECK_DEADLOCK FALSE
INVARIANTS OffersAnswer SectionIsCurrent
PROPERTIES FormSurvives EntryIsKept
