CONSTANTS
  NONE = NONE
  Byte <- BoundaryBytes
  Lengths <- BoundaryLengths
  Builds = {TRUE, FALSE}
  Names <- BothNames
  Levels <- BoundaryLevels
  Strings <- TwoStrings
  Contents <- BoundaryContents
  Topics = {1, 2, 3}
  CounterMod = 2
SPECIFICATION ReaderSpec
INVARIANTS ReadsWhatIsWritten LengthBounded CursorAtEnd ConnectOutcome BufferFilled ForwardedWhole AbortsOnlyOversize
CHECK_DEADLOCK FALSE
