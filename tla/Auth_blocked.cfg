CONSTANTS
  Host = {h1}
  Cached = {}
  Loops = "shared"
  HostsHearCS = TRUE
  Duplicated = FALSE
  Passwords = {TRUE, FALSE}
  MaxCalls = 1
SPECIFICATION Spec
CHECK_DEADLOCK FALSE
INVARIANTS ValidCredentialsGranted
