\* Two requests at a time of the console and somebody else, one administrator;
\* a file with a column no longer loads.
SPECIFICATION Spec
CONSTANTS
  Call = {c1, c2}
  User = {demo, ann}
  Password = {pw1, pw2}
  Column = {team}
  Admin = {demo}
  Inactive = {}
  MaxAttempts = 1
  MaxUsers = 2
  MaxColumns = 0
  InitialDoc <- MCInitialDoc
  None = None
  MaxPolls = 2
  MaxTokens = 1
  Outside <- MCOutside
  Typed <- MCTyped
  Stored = {demo}
  demo = demo
  ann = ann
  pw1 = pw1
  pw2 = pw2
  team = team
SYMMETRY Symmetry
CHECK_DEADLOCK FALSE
INVARIANTS TypeOK AcknowledgedIsSaved
PROPERTIES CreatedUserListed NewestSnapshot StoreIsDurable
