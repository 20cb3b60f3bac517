\* Three sessions over a run, in two tabs at most and any splits: of both kinds
\* with the one report that moves a tab, or shells in two directories, which
\* each may change at any time, and links to either.
CONSTANTS
  repo = repo
  home = home
  MaxId = 3
  MaxClosed = 1
  Cwd = {repo, home}
  Launches = {"Shell", "Claude"}
  SplitDirs = {"Vertical"}
  Reports = {"Attention"}
  MaxTabs = 2
SPECIFICATION MCSpec
INVARIANTS TypeOK RegisteredIffHosted CloseThenReopen
PROPERTIES PtysFollowRegistry ShownChangeReported FocusNotStolen LinkShowsRepo
