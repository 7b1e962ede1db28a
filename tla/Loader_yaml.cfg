SPECIFICATION Spec

CONSTANTS
  Docs <- Sample
  Words <- AllWords
  Targets <- AllTargets
  Outputs <- AllOutputs
  ParentOf <- Parents
  Makeable <- CanMake

CHECK_DEADLOCK FALSE

INVARIANTS
  YamlMatchesReference
