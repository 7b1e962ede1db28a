SPECIFICATION Spec

CONSTANTS
  Docs <- AllDocs
  Words <- AllWords
  Targets <- AllTargets
  Outputs <- AllOutputs
  ParentOf <- Parents
  Makeable <- CanMake

CHECK_DEADLOCK FALSE

INVARIANTS
  LoadMatchesReference
  PluginsLive
