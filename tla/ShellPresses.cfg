\* The instance of Shell.cfg, for one claim of the docs.
CONSTANTS
  MaxId = 3
  MaxClosed = 1
  Cwd = {repo}
  Launches = {"Shell"}
  SplitDirs = {"Vertical"}
  Reports = {"Attention"}
  MaxTabs = 2
  ClosePolicy = "confirmWhenActive"
  Pressed = {"Escape", "TogglePark", "CloseFocused"}
  MaxPresses = 3
SPECIFICATION Spec
PROPERTY RearmedPromptKept
