CONSTANTS
  Processes = {p1, p2}
  Direct = Direct
  Ids <- MCIds
  a = a
  b = b
  Manifests <- MCManifests
  HostLists <- MCHostLists
  BuiltIns <- MCBuiltIns
  Limit = 10000
  NoSuccess = NoSuccess
  Absent = Absent
  Empty = Empty
  Torn = Torn
  MaxOperations = 3
SPECIFICATION CacheSpec
INVARIANTS Readable Published OrderedNodes SuccessLeads
SYMMETRY Symmetry
CHECK_DEADLOCK FALSE
