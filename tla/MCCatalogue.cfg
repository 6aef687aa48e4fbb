CONSTANTS
  s1 = s1
  s2 = s2
  a1 = a1
  Jobs = {j1, j2}
  Stores <- Both
  Apps = {a1}
  Offers <- SameApp
  Lists <- SomeLists
  MaxVersion <- OnceNew
  Hollow <- SecondHollow
  Hangs = FALSE
SPECIFICATION Spec
INVARIANTS JobsGoOn KeepsCopy CheckedIsCurrent CatalogueFollowsSources
PROPERTIES HoldersLetGo NothingRunsUnbounded
