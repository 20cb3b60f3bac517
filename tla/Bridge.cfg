\* Two callers of any of the three tools and a channel of one place, two sessions.
CONSTANTS
  MaxId = 2
  MaxClosed = 0
  Cwd = {"repo"}
  caller1 = caller1
  caller2 = caller2
  Caller = {caller1, caller2}
  Capacity = 1
  Tools = {"Wait", "Prompt", "Screenshot"}
  Targets = {"Idle", "Attention"}
  AllowNesting = FALSE
  Launches = {"Shell", "Claude"}
  Reports = {"Busy", "Idle"}
  MaxTabs = 1
SPECIFICATION Spec
INVARIANTS TypeOK NoWaiterForgotten
PROPERTIES AnswersTrue PromptSawWork CallReturns
CHECK_DEADLOCK FALSE
