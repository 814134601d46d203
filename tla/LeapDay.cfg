SPECIFICATION Spec
CONSTANTS
  NoTime = NoTime
  SetTimes <- MainSetTime
  ChipTimes <- MCChipTimes
  MaxSeconds = 0
  MaxDays = 75
  MaxFaults = 0
  MaxCrashes = 0
PROPERTY ReadsUnixTime
