\* An override in which the form has removed a variable of the store's, and the fields of
\* x-compose-app saved.
CONSTANTS
  Ops = {p1}
  Svcs = {"web", "db"}
  Main = "web"
  Store <- Versions
  Overrides <- SomeOverrides
  EnvFiles <- SomeEnvFiles
  Lists <- SomeLists
  Owned <- OwnedKeys
  Deployments <- SomeDeployments
  Typed <- SomeTyped
  Filled <- SomeFilled
  MaxNews = 1
SPECIFICATION Spec
PROPERTY TweaksPreserved
CHECK_DEADLOCK FALSE
