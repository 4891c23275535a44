\* A fresh and an earlier database through the wizard, crashes, edits and imports.
SPECIFICATION Spec
CONSTANTS
  main = main
  other = other
  odd = odd
  Slugs = {main, other, third, odd}
  Slugify <- MCSlugify
  Existing <- MCExisting
  Templates <- MCTemplates
  Incoming <- MCIncoming
  GridRows = {3}
  CardRows = {3}
  CardHeights = {2}
  WidgetHeights = {30}
  None = None
  MaxDash = 3
  MaxCards = 4
  MaxEdits = 2
  MaxDocument = 2
  MaxImports = 1
INVARIANTS
  TypeOK
  OneDefault
  NeverEmpty
  ExportRestores
PROPERTIES
  SetupWipesNothing
  ImportKeeps
  MergeBelow
  ImportLeavesDefault
