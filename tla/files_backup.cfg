CONSTANTS
  MAGIC = 1000
  LEGRAND = 33
  TAG_UPGRADE_IMAGE = 0
  PathOrder <- MCPathOrder
  Kind <- OtherKind
  SavePath <- MCSavePath
  NoPath = "none"
  Contents <- BackupContents
  DeviceCode = 11
  SwVersions = {1, 2}
  EditCodes = {11}
  EditVersions = {3}
SPECIFICATION Spec
PROPERTY UpdateFound
CONSTRAINT OneAtATime
