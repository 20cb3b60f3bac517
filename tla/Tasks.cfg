CONSTANTS
  p = p
  q = q
  Launch = {p, q}
  Given = {p, q}
  MaxFailed = 1
  Nobody = Nobody
  Theme = {0, 1}
  Default = 0
  MaxHand = 1
  MaxSets = 2
  MaxStarts = 2
  MaxAside = 1
  Left = Left
  Right = Right
  src = src
  Spot = {1}
  Path = {src}
  Rooted = {Left}
  Urls = {Right}
  Nothing = Nothing
  File = {1}
  MaxVersion = 3
SPECIFICATION Spec
INVARIANTS TypeOK
PROPERTIES LinksActedOn SettingsKept UnderlineFollows SidebarFollows
CHECK_DEADLOCK FALSE
