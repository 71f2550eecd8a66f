SPECIFICATION Spec
CONSTANTS
  Lower <- MCLower
  Blank = " "
  NewLine = "nl"
  Return = "cr"
  Zero = "zero"
  HeadSize = 2
  ReadSize = 2
  MaxBytes = 4
  Contents <- MCContents
  Stale <- MCStale
  GrepQueries <- MCGrepQueries
  LineLimits = {0, 1, 3}
  GrepOptions <- MCGrepOptions
  Match <- MCMatch
  SkippedNames = {"node_modules"}
  AnyDepth = "**"
  Globs <- MCGlobs
  GlobPaths <- MCGlobPaths
  Tree <- MCTree
  RootNames = {"fg", "node_modules"}
  IgnoreFiles <- MCIgnoreFiles
  IgnoreFns <- MCIgnoreFns
  Outputs <- MCOutputs
  Digits <- MCDigits
  SizeUnits <- MCSizeUnits
  DurationUnits <- MCDurationUnits
  MaxInt = 127
  Queries <- MCQueries
  FileAttributes <- MCFileAttributes
  Now = 100
  Number <- MCNumber
  DefaultLimit = 2
  NoValue = "no value"
  CommandLines <- MCCommandLines
  AfterDashes <- MCAfterDashes
  Libraries <- MCLibraries
  AddCalls <- MCAddCalls
  OverlayQueries <- MCOverlayQueries
  Threads = {t1, t2}
  Paths = {"p", "q"}
  NoPath = ""
  MaxCalls = 3
  Raisers = {g1, g2, g3}
  Scores <- MCScores
  MaxRaises = 2
INVARIANT AllOccurrences
