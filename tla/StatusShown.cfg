SPECIFICATION FairSpec
CONSTANTS
  Jobs = {"j"}
  After = {}
  Pages = {"p"}
  Leaving = {}
  Sleeping = {}
  MaxReports = 0
  Main = Main
  Report = Report
  Nobody = Nobody
PROPERTIES StatusShown
CHECK_DEADLOCK FALSE
