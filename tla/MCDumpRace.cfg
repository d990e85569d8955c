CONSTANTS
  Dumpers = {d1, d2}
  Nobody = Nobody
  AllDatabases = {}
  Overwriters = {}
  Databases <- TwoDatabases
  Home = "home"
  Root = "root"
  Collections <- TheCollections
  Views <- TheViews
  Targets <- TheTargets
  System = {"_sys"}
  IncludeSystem = FALSE
  Included <- IncludedNames
  Excluded = {"tmp"}
  Chunks = 2
  AtomicPut = TRUE
SPECIFICATION Spec
INVARIANT ManifestBacked
