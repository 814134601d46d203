SPECIFICATION Spec
CONSTANTS
  Pieces <- MCPieces
  Zero <- MCZero
  Shorts <- MCShorts
  Keys <- MCKeys
  DefaultKey <- k0
  Blank = Blank
  Corrupt = Corrupt
  Times <- MCTimes
  BadTimes <- MCBadTimes
  LongArgs <- MCLongArgs
  ZeroTime = ZeroTime
  IdHasNul = TRUE
  Contents <- FewContents
  MaxFrames = 2
  MaxWrites = 2
  MaxConns = 2
  FlashFaults = TRUE
  Patient = FALSE
  MaxCrashes = 1
INVARIANT ArgumentIsOwn
INVARIANT StatusTruth
INVARIANT KeyMatchesFlash
INVARIANT IInv
PROPERTY Implements
INVARIANT ServiceInv
