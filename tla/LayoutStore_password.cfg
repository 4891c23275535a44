\* The wizard on a new database, and a server that may be killed at any step.
SPECIFICATION Spec
CONSTANTS
  main = main
  other = other
  odd = odd
  Slugs = {main, other}
  Slugify <- MCSlugify
  Existing = {}
  Templates <- MCTemplates
  Incoming = {}
  GridRows = {3}
  CardRows = {1}
  CardHeights = {1}
  WidgetHeights = {}
  None = None
  MaxDash = 2
  MaxCards = 1
  MaxEdits = 0
  MaxDocument = 0
  MaxImports = 0
INVARIANT WizardReplacesPassword
