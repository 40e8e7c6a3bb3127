\* Three providers, one of them an aggregator, over two permits; pages with and
\* without items; adapters that may hang for ever.
SPECIFICATION FairSpec
CONSTANTS
  Providers = {p1, p2, p3}
  Aggregators = {p3}
  MaxConcurrent = 2
  MaxPages = 1
INVARIANTS PermitsConserved
PROPERTIES SilentAfterTerminal NoDispatchAfterTerminal ImplementsSearchRun SearchEnds
CHECK_DEADLOCK FALSE
