CONSTANTS
  StackSize = 400
  Margin = 100
  PointerBits = 11
  Superclasses <- MCSuperclasses
  InstVars <- MCInstVars
  Globals <- MCGlobals
  Library <- MCLibrary
  Programs <- MCEnsuring
  Source <- MCSource
SPECIFICATION Spec
INVARIANTS EnsuredEvaluated
