\* What rewrites an app's files, two requests at a time and two changes.
CONSTANTS
  Ops = {p1, p2}
  Svcs = {"web", "db"}
  Main = "web"
  Store <- Versions
  Overrides <- SomeOverrides
  EnvFiles <- SomeEnvFiles
  Lists <- SomeLists
  Owned <- OwnedKeys
  Deployments <- SomeDeployments
  Typed <- SomeTyped
  Filled <- SomeFilled
  MaxNews = 2
SYMMETRY Symmetric
SPECIFICATION Spec
INVARIANTS TypeOK RoutesHealed FormMeansWhatItSays FollowsNow
PROPERTY OperatorKept
