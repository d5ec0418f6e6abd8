CONSTANTS
  StackSize = 400
  Margin = 100
  PointerBits = 11
  Superclasses <- MCSuperclasses
  InstVars <- MCInstVars
  Globals <- MCGlobals
  Library <- MCLibrary
  Programs <- MCPrograms
  Source <- MCSource
SPECIFICATION Spec
INVARIANTS TypeOK ResultIsMeaning ParsedAsWritten TreecodesKeepTree NothingWild NonLocalReturnsHome
PROPERTIES CallersKept Terminates
