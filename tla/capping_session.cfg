\* One host, two caps, three sessions, Ctrl+C at any point.
CONSTANTS
  Hosts = {h1}
  Caps <- TwoCaps
  LastCap = 50
  Patient = TRUE
  MaxSessions = 3
  MaxInterrupts = 2
SPECIFICATION FairSpec
INVARIANTS QueriesCapped OthersClosed NoCapLeft
PROPERTIES WaitEnds QuitIsObeyed
\* wait hangs when the q's are lost.
CHECK_DEADLOCK FALSE
