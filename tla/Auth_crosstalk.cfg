CONSTANTS
  Host = {h1, h2}
  Cached = {}
  Loops = "tasks"
  HostsHearCS = FALSE
  Duplicated = FALSE
  Passwords = {TRUE, FALSE}
  MaxCalls = 1
SPECIFICATION Spec
CHECK_DEADLOCK FALSE
INVARIANTS AnswerMatchesRequest
