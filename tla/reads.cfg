SPECIFICATION PagesFairSpec
CONSTANTS
  Traces = {1, 2, 3}
  Started <- StartOf
  Duration <- DurationOf
  Tags = {g1, g2}
  Filters = {{}, {g1}}
  Windows <- WindowsOf
  MaxTags = 1
  Limit = 1
  ExportCap = 2
  Users = {u1, u2}
  MaxEdits = 2
  Values = {0, 1, 3}
  MaxSample = 3
  Quantiles = {50, 90, 99}
  Steps = {1, 2, 4}
  Reach <- ReachOf
  Named = {"m1", "m2"}
  Codes = {200, 429}
  Horizon = 6
INVARIANTS ListingSound NothingSkipped StripAgreesWithListing
PROPERTY ScrollEnds
CHECK_DEADLOCK FALSE
