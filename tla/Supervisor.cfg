SPECIFICATION SupSpec
CONSTANTS
  Subs <- MCSubs
  Available = {"http", "swarm"}
  Rebuildable = {"gateway", "swarm"}
  NeedsSessions = {"http", "gateway"}
  Configs <- MCConfigs
  Restartable = TRUE
  MaxReloads = 2
  MaxLives = 2
CHECK_DEADLOCK FALSE
INVARIANTS SurfacesAreConsistent TwinsOutlastedTheDrain AppliedWhole
PROPERTY WordIsHeard
