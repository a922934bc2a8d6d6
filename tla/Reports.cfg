\* Times of half a second, sessions of up to two cookies, captures of up to three
\* exchanges with two rows printed.
CONSTANTS
  TicksPerSecond = 2
  None = None
  States <- MCStates
  ShapedSegment <- MCShapedSegment
  ShapedHost <- MCShapedHost
  Exchanges <- MCExchanges
  MaxTime = 4
  MaxCalls = 3
  Shown = 2
SPECIFICATION ReportsSpec
INVARIANTS
  HintAgreesWithDate
  NothingLeftOut
  RowsTellOfAllCalls
  LikeliestShown
