CONSTANTS
  n1 = n1
  n2 = n2
  i1 = i1
  i2 = i2
  r1 = r1
  r2 = r2
  Nodes = {n1, n2}
  OTAU_MAX_ACTIVE = 1
  U8 = 5
  U16 = 8
  U32 = 16
  MAX_ASDU_SIZE = 4
  MAX_SAFE_ASDU_SIZE = 3
  RSP_HEADER_SIZE = 1
  MAX_BLOCK_SIZE = 3
  MAX_OLD_BLOCK_SIZE = 2
  Images = {i1, i2}
  NoImage = NoImage
  FileVersion <- MCFileVersion
  RawSize <- MCRawSize
  UpdateFiles <- MCUpdateFiles
  BrokenFiles = {i2}
  WrappedUpdates = {n2}
  OldStackNodes = {n1}
  BuschJaegerNodes = {}
  OsramNodes = {n2}
  FlsHNodes = {n1}
  FLS_H_VERSION = 2
  ReqIds = {r1}
  INVALID_APS_REQ_ID = INVALID_APS_REQ_ID
  Refused = Refused
  DONT_CARE_FILE_VERSION = 99
  NO_ACK_THRESHOLD = 1
  MAX_IMG_BLOCK_RSP_RETRY = 2
  MAX_IMG_PAGE_REQ_RETRY = 2
  ReqVersions = {99}
  ReqOffsets = {0}
  ReqDataSizes = {3}
  ReqPageSizes = {2}
  StrayCmds = {"other", "page"}
SPECIFICATION OfferSpec
PROPERTIES BlocksFit FlsHProtected OfferHoldsSlot
VIEW LiveView
