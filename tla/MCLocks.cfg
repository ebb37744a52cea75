SPECIFICATION Spec
CONSTANTS
  Goroutine <- MCGoroutine
  Main = "main"
  Early = {"flush"}
  Paths <- MCPaths
  Restoring <- Restore
  Lock <- MCLock
  Nobody = Nobody
  Rank <- MCRank
  BootRank <- MCBootRank
INVARIANTS
  TypeOK
  NoDeadlock
