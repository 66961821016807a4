SPECIFICATION Spec
CONSTANTS
  factoryVal = factoryVal
  userVal = userVal
  Apps = {1, 2}
  AppParas <- PlainParas
  RowMax <- OneRowEach
  RowParas <- Columns
  Values = {userVal}
  Empty = Empty
  DefaultFile <- FreshFile
  RowValues <- RowArrays
  Reads <- OneAndAll
PROPERTIES ImplementsStore ReadIsCurrent
CHECK_DEADLOCK FALSE
