SPECIFICATION Spec
CONSTANTS
  CoreBuilds <- MCCoreBuilds
INVARIANTS
  TypeOK
  FaultsOnlyUnloaded
  KeywordsNeedCore
  InterpreterCopyHeld
  OwnReferencesBounded
  BindingNeedsKeywords
