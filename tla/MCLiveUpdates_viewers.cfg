\* Two writes at once, one page, two queries of it.
SPECIFICATION FairSpec
CONSTANTS
  ann = ann
  ben = ben
  h1 = h1
  h2 = h2
  Viewers = {ann}
  Handlers = {h1, h2}
  Ops = {"PlaceStory", "RenameState", "CreateStory"}
  Queries = {"pbis", "sprints"}
  MaxVersion = 2
INVARIANTS NoSilentStaleness
PROPERTIES CaughtUp PromiseKept
CHECK_DEADLOCK FALSE
