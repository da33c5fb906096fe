CONSTANTS
  Host = {h1, h2}
  Cached = {}
  Loops = "shared"
  HostsHearCS = TRUE
  Duplicated = TRUE
  Passwords = {TRUE, FALSE}
  MaxCalls = 1
SPECIFICATION FairSpec
CHECK_DEADLOCK FALSE
PROPERTIES EverythingEnds
