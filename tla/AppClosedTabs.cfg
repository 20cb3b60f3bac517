\* One session is enough: its tab closes, and reopening it does nothing.
CONSTANTS
  repo = repo
  home = home
  MaxId = 2
  MaxClosed = 1
  Cwd = {repo}
  Launches = {"Shell"}
  SplitDirs = {"Vertical"}
  Reports = {}
  MaxTabs = 2
SPECIFICATION Spec
PROPERTY EveryClosedTabRemembered
