CONSTANTS
  n1 = n1
  n2 = n2
  i1 = i1
  i2 = i2
  r1 = r1
  r2 = r2
  Nodes = {n1}
  OTAU_MAX_ACTIVE = 2
  U8 = 3
  U16 = 3
  U32 = 6
  MAX_ASDU_SIZE = 2
  MAX_SAFE_ASDU_SIZE = 1
  RSP_HEADER_SIZE = 0
  MAX_BLOCK_SIZE = 1
  MAX_OLD_BLOCK_SIZE = 1
  Images = {i1, i2}
  NoImage = NoImage
  FileVersion <- MCFileVersion
  RawSize <- ShortImages
  UpdateFiles <- NewestFile
  BrokenFiles = {}
  WrappedUpdates = {n1}
  OldStackNodes = {}
  BuschJaegerNodes = {}
  OsramNodes = {}
  FlsHNodes = {}
  FLS_H_VERSION = 2
  ReqIds = {r1}
  INVALID_APS_REQ_ID = INVALID_APS_REQ_ID
  Refused = Refused
  DONT_CARE_FILE_VERSION = 99
  NO_ACK_THRESHOLD = 1
  MAX_IMG_BLOCK_RSP_RETRY = 2
  MAX_IMG_PAGE_REQ_RETRY = 2
  ReqVersions = {1, 2}
  ReqOffsets = {0, 1}
  ReqDataSizes = {1}
  ReqPageSizes = {2}
  StrayCmds = {}
  NoVersion = NoVersion
  MAX_AIR = 2
SPECIFICATION MCDeliverySpec
PROPERTIES ImplementsUpdate
VIEW DeliveryView
