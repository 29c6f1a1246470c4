\* Expected to be violated: a purge that removes no row keeps the dead links.
SPECIFICATION Spec
CONSTANTS
  Objects = {o1}
  Period = 1
  TrashPeriod = 1
  LinkPeriod = 1
  MaxSecond = 2
  Engines = {"sqlite", "json"}
PROPERTY StaleLinksGone
CHECK_DEADLOCK FALSE
