CONSTANTS
  NULL = NULL
  NoDevice = NULL
  DevName <- MCDevName
  DeviceLists <- MCDeviceLists
SPECIFICATION Spec
CHECK_DEADLOCK FALSE
INVARIANT OpenedNamedDevice
