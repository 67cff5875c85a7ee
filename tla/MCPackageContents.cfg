CONSTANTS
  Fold <- FoldDef
  Slug <- SlugDef
  Taxonomy <- TaxonomyDef
  CoreFile <- CoreFileDef
  Abstract <- AbstractDef
  Footprint <- FootprintDef
  ExportScale = 2
  Sources <- SourcesDef
  Key = {1, 2}
  Weight = {1, 3}
  Budget = 2
  BatchSize = 2
  RunBatch = 2
  Recipes <- RecipesDef
  RowGroupSizes = {1, 2, 3}
  Declared = {{}, {2}}
  Asked = {0, 18}
  Windows <- WindowsDef
  Edits <- EditsDef
  Edited <- EditedDef
SPECIFICATION Spec
CHECK_DEADLOCK FALSE
INVARIANTS
  FamiliesContiguous
  OneClaim
  BoxCovers
  ExportedOnce
  RoundTrip
  SurfacesKeepMeaning
  LossIsCounted
  YieldsReference
  WrittenIsValid
  ValidReads
  ItemTells
  PruningKeepsRows
