\* Two connections, which fill the semaphore: serve waits for a slot or for a client.
SPECIFICATION FairSpec
CONSTANTS
  Callers = {c1, c2}
  Blobs = {k1}
  k1 = k1
  Passphrases = {p1, p2}
  p1 = p1
  p2 = p2
  Bufs = {b1, b2, b3}
  MaxLifetime = 2
  MaxTime = 2
  Requests <- MCRequests
  MaxConns = 2
  None = None
CHECK_DEADLOCK FALSE
INVARIANT
  SecretsSealedAtRest
PROPERTIES
  SignsWithinConstraints
  ShutdownCompletes
  ExpiredIsDestroyed
