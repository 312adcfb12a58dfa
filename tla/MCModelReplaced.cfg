SPECIFICATION Spec
CONSTANTS
  Schemas <- ReplacedSchemas
  Documents <- ReplacedDocuments
  TableName <- Root
  Models <- TheModels
  Renderings <- TheRenderings
  KeyOf <- TheKeyOf
  CellsOf <- TheCellsOf
PROPERTIES Replaced
