CONSTANTS
  Host = {h1, h2, h3}
  Cached = {h3}
  Loops = "tasks"
  HostsHearCS = FALSE
  Duplicated = FALSE
  Passwords = {TRUE, FALSE}
  MaxCalls = 1
SPECIFICATION Spec
CHECK_DEADLOCK FALSE
INVARIANTS TypeOK PendingExact GrantsBacked ValidCredentialsGranted OnlyVerifiedUsers
SYMMETRY HostSymmetry
