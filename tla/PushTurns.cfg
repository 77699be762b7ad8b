CONSTANTS
  Off = Off
  Workers = {w1}
  Tokens = {t1, t2}
  Sessions = {u1, u2}
  Owner <- Owners
  Messages = {m1}
  Redated = {}
  Of <- AllForU
  Batch = 1
  MaxDevices = 2
  MaxAttempts = 2
  MaxCalls = 2
  MaxFaults = 1
  MaxLoad = 3
SPECIFICATION FairSpec
PROPERTY EveryPushSettles
