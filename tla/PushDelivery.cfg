CONSTANTS
  Off = Off
  Workers = {w1, w2}
  Tokens = {t1}
  Sessions = {u1}
  Owner <- Owners
  Messages = {m1, m2}
  Redated = {m1}
  Of <- AllForU
  Batch = 1
  MaxDevices = 2
  MaxAttempts = 2
  MaxCalls = 2
  MaxFaults = 1
  MaxLoad = 3
SPECIFICATION Spec
SYMMETRY Alike
INVARIANTS
  SentOncePerLease
  SentToOneRegistration
  AtMostOneLate
