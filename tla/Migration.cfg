\* Three processes of three builds, migrations of two statements.
SPECIFICATION Spec
CONSTANTS
  old = old
  new = new
  newest = newest
  Openers = {old, new, newest}
  Latest <- Builds
  Statements = 2
  None = None
INVARIANTS StampMatchesSchema OpenHasItsSchema
PROPERTIES StampOnlyRises
