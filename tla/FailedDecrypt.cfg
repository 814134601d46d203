SPECIFICATION Spec
CONSTANTS
  BufSize = 64
  NoKey = NoKey
  Slots = 1
  MaxFaults = 1
  MaxFrames = 3
  Statuses = {1, 2}
  Levels = {90}
  Ctr <- MCCtr
  LockIvs <- MCLockIvs
  ClientIvs <- MCClientIvs
  uniqueId <- Id
  FirstKey <- K0
  Keys <- MCKeys
  Dates <- MCDates
  Requests <- MCRequests
CHECK_DEADLOCK FALSE
INVARIANT CommandIsFromFrame
