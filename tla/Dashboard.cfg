SPECIFICATION Spec
CONSTANTS
  Dashboards <- MCDashboards
  Rows <- MCRows
  DefaultDays = 1
  Day0 = 2
  Days = {1, 3}
  Stores = {"s"}
  Texts = {"x"}
  MaxDay = 1
  MaxEdits = 2
  Nil = Nil
INVARIANTS TableIsOneQuery SettledCardsFollowBar UrlIsTheDashboard
PROPERTY CardsLoad
CHECK_DEADLOCK FALSE
