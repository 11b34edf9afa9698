SPECIFICATION Spec
CONSTANTS
  q1 = q1
  p1 = p1
  v1 = v1
  None = None
  Entities = {q1, p1}
  Properties = {p1}
  PropertyIds = {p1}
  Amounts = {v1}
  Contents <- MCContents
  PageSize = 1
  WikiOps = {"edit", "delete", "undelete"}
  MaxRows = 5
  MaxDisturbances = 3
  MaxPermutations = 4
  LongerLabels <- MCLongerLabels
  LeftLabels = {"a", "b", "c"}
  RightLabels = {"b1", "b10", "c"}
  OddLabels = {"a", "b1"}
  MaxLines = 3
  Snapshot <- MCSnapshot
  UpdateGraph <- MCUpdateGraph
  MaxRuns = 3
  ProductBackends <- MCProductBackends
  MaxCommands = 4
  Images <- MCImages
  Sessions = {m1, m2}
  MaxUps = 3
INVARIANTS DatasetFollowsWiki CanonicalMeansIsomorphic VolumesHaveTheirSecrets SchemaFollowsFiles
CHECK_DEADLOCK FALSE
