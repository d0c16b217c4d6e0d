CONSTANTS
  MAGIC = 1000
  LEGRAND = 33
  TAG_UPGRADE_IMAGE = 0
  PathOrder <- MCPathOrder
  Kind <- MCKind
  SavePath <- MCSavePath
  NoPath = "none"
  Contents <- MCContents
  DeviceCode = 11
  SwVersions = {1, 2}
  EditCodes = {11}
  EditVersions = {3}
SPECIFICATION Spec
INVARIANTS FoundImageFits HeaderOfImage
PROPERTIES UpdateFound SavedFileReadable
CONSTRAINT OneAtATime
