SPECIFICATION Spec
CONSTANTS
  Schemas <- WholeSchemas
  Documents <- WholeDocuments
  TableName <- Root
  Models <- TheModels
  Renderings <- TheRenderings
  KeyOf <- TheKeyOf
  CellsOf <- TheCellsOf
INVARIANTS TypeOK Installable
PROPERTIES ImplementsStore
CHECK_DEADLOCK FALSE
