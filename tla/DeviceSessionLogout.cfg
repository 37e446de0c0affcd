CONSTANTS
  Tabs = {b1, b2}
  Calls = {c1, c2}
  NoTab = NoTab
  MaxTokens = 3
  MaxFaults = 1
  MaxLogouts = 1
SPECIFICATION FairSpec
CHECK_DEADLOCK FALSE

PROPERTY LogoutSticks
