SPECIFICATION Spec
CONSTANTS
  card = card
  nameA = nameA
  nameB = nameB
  Paths <- Nested
  Folders <- FolderA
  Remade = {}
  Names = {nameA, nameB}
  Orders <- Both
  MaxObjects = 2
  LastHandle = 5
  HandlesWrap = FALSE
  Generations = 3
  Scopes = {card}
  Requests = {"GetObjectHandles", "GetNumObjects", "GetObjectPropList", "Rename", "Move", "Delete", "SendObjectInfo", "GetObjectInfo"}
  StaleTargets = FALSE
INVARIANTS
  ObjectsInv
  TableMirrorsTree
PROPERTIES
  HandlesAreStable
