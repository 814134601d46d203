SPECIFICATION Spec
CONSTANTS
  Pieces <- MCPieces
  Zero <- MCZero
  Shorts <- MCShorts
  Keys <- MCKeys
  DefaultKey <- k0
  Blank = Blank
  Corrupt = Corrupt
  Times <- MCTimes
  BadTimes <- MCBadTimes
  LongArgs <- MCLongArgs
  ZeroTime = ZeroTime
  IdHasNul = TRUE
  Contents <- FewContents
  MaxFrames = 1
  MaxWrites = 1
  MaxConns = 1
  FlashFaults = FALSE
  Patient = TRUE
  MaxCrashes = 1
INVARIANT StatusSurvivesRestart
