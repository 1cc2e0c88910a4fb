SPECIFICATION Spec
CONSTANTS
  Updaters <- MCUpdaters
  Primary <- MCPrimary
  Text16 <- MCText16
  LOOKBACK = 5
  BLOCKS = 7
  FillerFirst = 4
  FillerLast = 6
  DistinctBlocks = 5
  Filler140 <- MCFiller140
  RuntimePlaces <- MCRuntimePlaces
  BadPlaces <- MCBadPlaces
  MaxRows = 2
  NoExe = NoExe
  NoRow = NoRow
  Tools <- MCTools
  Shipped <- MCShipped
  MAX_PAIR_GAP = 3
  MinRun = 2
  Span = 10
  Follow = 3
  MinSites = 4
  FIELD_EXPECTATIONS <- MCFieldExpectations
  shipped_button_table <- MCShippedButtons
  NoTool = NoTool
INVARIANTS
  TypeOK
  MouseKeepsLineage
  ReviewsAgree
  CensusBacksLineage
  ScoreIsHonest
  AdoptedMeansSame
CHECK_DEADLOCK FALSE
