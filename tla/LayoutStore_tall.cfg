\* Documents whose dashboards have 12, 24 and 30 rows.
SPECIFICATION Spec
CONSTANTS
  main = main
  other = other
  odd = odd
  Slugs = {main, other}
  Slugify <- MCSlugify
  Existing = {}
  Templates <- MCTemplates
  Incoming <- MCTallIncoming
  GridRows = {3, 24}
  CardRows = {1}
  CardHeights = {1}
  WidgetHeights = {}
  None = None
  MaxDash = 3
  MaxCards = 1
  MaxEdits = 1
  MaxDocument = 1
  MaxImports = 1
INVARIANT StoredDashboardsReadable
