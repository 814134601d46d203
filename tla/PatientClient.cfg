SPECIFICATION FairSpec
CONSTANTS
  Pieces <- MCPieces
  Zero <- MCZero
  Shorts <- MCShorts
  Keys <- MCKeys
  DefaultKey <- k0
  Blank = Blank
  Corrupt = Corrupt
  Times <- MCTimes
  BadTimes <- MCBadTimes
  LongArgs <- MCLongArgs
  ZeroTime = ZeroTime
  IdHasNul = TRUE
  Contents <- AllContents
  MaxFrames = 2
  MaxWrites = 2
  MaxConns = 2
  FlashFaults = FALSE
  Patient = TRUE
  MaxCrashes = 1
INVARIANT NothingDropped
PROPERTY MotorStops
PROPERTY Answered
PROPERTY AdvertTruth
PROPERTY SoundCommandAccepted
PROPERTY DateRefusedAfterLong
INVARIANT PatienceInv
