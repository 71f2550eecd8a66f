SPECIFICATION Spec
CONSTANTS
  Lower <- MCLower
  Blank = " "
  PathText <- MCPathText
  WalkOrder <- MCWalkOrder
  Attributes <- MCAttributes
  Words <- MCWords
  Queries <- MCQueries
  Limits = {3}
  Combos <- MCCombos
  Accepts <- MCAccepts
INVARIANT EmptyOnNoMatch
