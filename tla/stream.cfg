\* Two request threads; the log, a second stream into its file, and a stream of
\* the frequency worker on a socket of its own.
CONSTANTS
  r1 = r1
  r2 = r2
  p = p
  q = q
  h = h
  k1 = k1
  k2 = k2
  Requests <- TwoRequests
  Streams = {p, q, h}
  Hardware = {h}
  LogStream = p
  Raises = {}
  SocketIDs = {k1, k2}
  SocketOf <- Shared
  Extends <- Prefix
  StreamLength <- Ones
  SampleEvery = 1
  MaxSockets = 3
  MaxRequests = 2
SPECIFICATION FairSpec
INVARIANTS StreamsHaveSockets LocksReleased ClosedAtExit HoldersGoOn
PROPERTIES ListsAreLeftAlone ShutdownEnds SamplingGoesOn
\* A thread that waits for a lost lock waits for ever.
CHECK_DEADLOCK FALSE
