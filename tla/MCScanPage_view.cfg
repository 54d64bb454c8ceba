SPECIFICATION Spec
CONSTANTS
  Pages = {page1}
  Slots = {l1, l2}
  Outcomes = {"completed"}
  MaxFindings = 1
  MaxFeed = 1
INVARIANTS TypeOK NoFalseEnd EventsNotEarly FinalListComplete
PROPERTY PageSettles
CHECK_DEADLOCK FALSE
