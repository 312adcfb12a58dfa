SPECIFICATION Spec
CONSTANTS
  Schemas <- TheSchemas
  Directories <- TheDirectories
  TableName <- Root
  Pk <- Id
  Models <- TheModels
  Renderings <- TheRenderings
  Columns <- TheColumns
  Values <- TheValues
  KeyOf <- TheKeyOf
  CellsOf <- TheCellsOf
  MaxRuns = 3
  MaxFaults = 2
INVARIANTS TypeOK StoredWhenDone UpsertsRepair DropMakesRoom RefusedInTime
CHECK_DEADLOCK FALSE
