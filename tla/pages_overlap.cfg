SPECIFICATION PagesSpec
CONSTANTS
  Tabs = {t1, t2}
  Columns = {"department", "job_title", "country"}
  Defaults = {"department", "job_title"}
  SystemTheme = "light"
  Posts = {p1, p2}
  None = None
SYMMETRY Symmetric
INVARIANTS
  PagesTypeOK
  ChoiceSurvivesReload
  ThemeSticks
