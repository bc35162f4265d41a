CONSTANTS
  Topics = {"options", "builds", "bundles", "rules", "entries", "updates", "setup", "setups"}
  Sums = {TRUE, FALSE}
  Repos <- MCRepos
  Registries <- MCRegistries
  Drafts <- MCDrafts
  LocalDirs <- MCLocalDirs
  IndexerBuild <- MCIndexerBuild
  DaemonBuilds <- MCDaemonBuilds
  Hosts <- MCHosts
  RepoName <- MCRepoName
  MAX_STALENESS_DAYS = 2
  MaxReleases = 2
  LastDay = 4
  p1 = p1
  p2 = p2
  Products = {p1, p2}
  Shared = Shared
  BetaReleases = {2}
  LastRelease = 2
  Selections = {"detect", "all"}
  MaxRuns = 2
SPECIFICATION PublishSpec
INVARIANTS IndexIsSound BestIsTaken PublishedIsUsable
PROPERTIES ServedStaysServed SetupIsWhole
CHECK_DEADLOCK FALSE
