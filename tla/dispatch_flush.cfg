SPECIFICATION Spec
CONSTANTS
  Behavior = {1, 2}
  Lineage <- MCLineage
  Selector = {10, 20}
  Undermessage = {20}
  Site <- MCSite
  SelectorOf <- MCSelectorOf
  Version = {1, 2}
  Nil = Nil
  siteA = siteA
  siteB = siteB
  siteC = siteC
SYMMETRY SiteSymmetry
INVARIANT InlineCachesCurrent
