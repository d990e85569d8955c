CONSTANTS
  Dumpers = {d1, d2}
  Nobody = Nobody
  AllDatabases = {d2}
  Overwriters = {d2}
  Databases <- TwoDatabases
  Home = "home"
  Root = "root"
  Collections <- TheCollections
  Views <- TheViews
  Targets <- TheTargets
  System = {"_sys"}
  IncludeSystem = FALSE
  Included <- IncludedNames
  Excluded = {"tmp"}
  Chunks = 2
  AtomicPut = FALSE
SPECIFICATION Spec
INVARIANTS
  TypeOK
  OneWriter
  ManifestComplete
  BatchReleased
PROPERTIES
  PublishedIntact
