SPECIFICATION Spec
CONSTANTS
  Pieces <- MCPieces
  Zero <- MCZero
  Shorts <- MCShorts
  Keys <- MCKeys
  DefaultKey <- k0
  Blank = Blank
  Corrupt = Corrupt
  Times <- MCTimes
  BadTimes <- MCBadTimes
  LongArgs <- MCLongArgs
  ZeroTime = ZeroTime
  IdHasNul = FALSE
  Contents <- FewContents
  MaxFrames = 2
  MaxWrites = 2
  MaxConns = 1
  FlashFaults = FALSE
  Patient = TRUE
  MaxCrashes = 0
PROPERTY SoundCommandAccepted
