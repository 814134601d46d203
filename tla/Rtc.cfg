SPECIFICATION Spec
CONSTANTS
  NoTime = NoTime
  SetTimes <- MCSetTimes
  ChipTimes <- MCChipTimes
  MaxSeconds = 3
  MaxDays = 2
  MaxFaults = 2
  MaxCrashes = 1
INVARIANT NeverWaits
INVARIANT TwentyFourHours
PROPERTY TimeKept
INVARIANT RtcInv
