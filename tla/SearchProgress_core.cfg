\* Two providers, one of them an aggregator, over one permit; pages with and
\* without items; adapters and a subscriber that may hang for ever; a queue of
\* two snapshots.
SPECIFICATION SearchSpec
CONSTANTS
  Providers = {p1, p2}
  Aggregators = {p2}
  MaxConcurrent = 1
  MaxPages = 1
  QueueSize = 2
INVARIANTS PermitsConserved TerminalShown
PROPERTIES SilentAfterTerminal NoDispatchAfterTerminal ImplementsSearchRun SearchReturns
CHECK_DEADLOCK FALSE
