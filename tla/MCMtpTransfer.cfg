SPECIFICATION Spec
CONSTANTS
  fileA = fileA
  fileB = fileB
  flash = flash
  nand = nand
  Storages = {flash, nand}
  Names = {fileA, fileB}
  StorageOf <- TwoCards
  NoName = NoName
  MaxHandle = 1
  MaxObjects = 1
  Attempts = 1
  Sizes = {0, 2}
  Ops = {"SendObjectInfo", "SendObject", "OpenSession", "CloseSession", "DeleteObject", "GetObjectInfo", "SetObjectPropValue", "BeginEdit", "SendPartialObject", "TruncateObject", "EndEdit", "GetObject", "GetObjectHandles"}
  Faults = {"write", "replace", "close"}
  OrderlyHost = TRUE
  AnswersArrive = TRUE
INVARIANTS
  WriteInv
PROPERTIES
  UploadsAreAtomic
  UnregisterSparesOthers
CHECK_DEADLOCK FALSE
SYMMETRY SameOnBoth
