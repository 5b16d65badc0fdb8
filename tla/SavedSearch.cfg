SPECIFICATION ScreensSpec
CONSTANTS
  None = None
  Files = {1, 2, 3, 4, 5}
  Criteria = {"q", "untagged", "tagIds"}
  Meets <- MCMeets
  NameRank <- MCNameRank
  PageSize = 2
  c1 = c1
  c2 = c2
  Collections = {c1, c2}
  Slots = {1, 2, 3, 4}
  Works = {1, 2}
  Kind <- MCKind
  MaxRecipe = 3
  MaxRedact = 1
  MaxOverlay = 2
  Values = {"tiny", "all", "note", "half", "90", "a", "b"}
  Strokes <- MCStrokes
  Versions = {1, 2}
  Scenarios <- MCScenarios
INVARIANTS
  SavedSearchReopens
CHECK_DEADLOCK FALSE
