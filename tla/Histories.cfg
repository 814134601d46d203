SPECIFICATION Spec
CONSTANTS
  Pieces <- MCPieces
  Zero <- MCZero
  Shorts <- MCShorts
  Keys <- MCKeys
  DefaultKey <- k0
  Blank = Blank
  Corrupt = Corrupt
  Times <- MCTimes
  BadTimes <- MCBadTimes
  LongArgs <- MCLongArgs
  ZeroTime = ZeroTime
  IdHasNul = TRUE
  Contents <- ActingContents
  MaxFrames = 3
  MaxWrites = 3
  MaxConns = 1
  FlashFaults = FALSE
  Patient = FALSE
  MaxCrashes = 0
INVARIANT BridgeSafe
PROPERTY AtMostOnce
PROPERTY ReplyIsTrue
INVARIANT StatusTruth
INVARIANT KeyMatchesFlash
INVARIANT IInv
PROPERTY Implements
