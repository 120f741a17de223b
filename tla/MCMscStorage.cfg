SPECIFICATION StorageSpec
CONSTANTS
  Storage = {sd, flash}
  AppTask = {app, other}
  UsbTask = usb
  Drive = {0, 1}
  MaxLuns = 2
  None = None
  CreateAs = {"USB"}
  Formats = {sd}
  LastFirst = FALSE
  Quiesced = TRUE
  Movers = {app, other}
INVARIANTS
  StorageInv
CHECK_DEADLOCK FALSE
