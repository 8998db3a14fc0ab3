SPECIFICATION Spec
CONSTANTS
  Jobs = {"j"}
  After = {"j"}
  Pages = {"p", "q"}
  Leaving = {"p"}
  Sleeping = {"q"}
  MaxReports = 1
  Main = Main
  Report = Report
  Nobody = Nobody
INVARIANTS NothingMissed NoStall
CHECK_DEADLOCK FALSE
