\* Three shells over a run, in up to three tabs or panes, keys one at a time; and
\* apart from them two Claudes, or one and a shell in a split, with every overlay.
CONSTANTS
  MaxId = 3
  MaxClosed = 1
  Cwd = {repo}
  Launches = {"Shell"}
  SplitDirs = {"Vertical"}
  Reports = {"Attention"}
  MaxTabs = 2
  ClosePolicy = "confirmWhenActive"
  Pressed = {"Enter", "Escape", "CloseFocused", "ReopenClosedTab", "TogglePark", "NextTab", "FocusNext", "Vertical"}
  MaxPresses = 1
  OverlayMaxId = 2
  OverlayMaxClosed = 0
  OverlayLaunches = {"Claude"}
  OverlayExits = {TRUE}
  OverlayPressed = {"Enter", "Escape", "RenameTab", "OpenTabMenu", "SendToDesktop", "MenuColor", "MenuClose"}
SPECIFICATION EitherSpec
INVARIANTS TypeOK
PROPERTIES PromptFollowsTab PromptDroppedOnSwitch RunningTabConfirmed DragFollowsTab CommandsAnswered OverlaysAnchored
