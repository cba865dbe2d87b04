\* One request at a time over two years, the second a winter year, discovery
\* tasks, a process that may be killed, and the lists of the pipeline.
CONSTANTS
  Requests = {q1}
  Years = {2025, 2026}
  None = None
  k1 = k1
  k2 = k2
  Keys = {k1, k2}
  Batches <- MCBatches
  Shows <- MCShows
  PriorShows <- MCPriorShows
  Longest = 2
  Seasons = {"WINTER", "SPRING", "ALL"}
  Categories = {"series", "series-new"}
  Settings <- MCSettings
  Mappings <- MCMappings
  Now <- MCNow
SPECIFICATION MCSpec
INVARIANTS StaleServed  DiscoveryExact ResponseRight
