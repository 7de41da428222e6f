SPECIFICATION PageSpec
CONSTANTS
  Auto = Auto  Kept = Kept  Plain = Plain  Startup = Startup
  Pages = {Auto, Kept, Plain, Startup}
  NoPage = NoPage
  CacheMode <- MixedCache
  AnimType <- MixedAnim
  GlobalAnim = "over"
  Routes <- MostRoutes
  StashSizes = {1, 2}
  Careful = TRUE
INVARIANTS LifecycleInOrder TopIsShown NoFreedPage DragHasGetter
PROPERTY ManagerIsServed
