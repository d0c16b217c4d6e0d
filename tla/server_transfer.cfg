CONSTANTS
  n1 = n1
  n2 = n2
  i1 = i1
  i2 = i2
  r1 = r1
  r2 = r2
  Nodes = {n1}
  OTAU_MAX_ACTIVE = 1
  U8 = 4
  U16 = 8
  U32 = 16
  MAX_ASDU_SIZE = 3
  MAX_SAFE_ASDU_SIZE = 2
  RSP_HEADER_SIZE = 1
  MAX_BLOCK_SIZE = 2
  MAX_OLD_BLOCK_SIZE = 1
  Images = {i1}
  NoImage = NoImage
  FileVersion <- MCFileVersion
  RawSize <- MCRawSize
  UpdateFiles <- MCUpdateFiles
  BrokenFiles = {}
  WrappedUpdates = {}
  OldStackNodes = {}
  BuschJaegerNodes = {}
  OsramNodes = {}
  FlsHNodes = {}
  FLS_H_VERSION = 2
  ReqIds = {r1, r2}
  INVALID_APS_REQ_ID = INVALID_APS_REQ_ID
  Refused = Refused
  DONT_CARE_FILE_VERSION = 99
  NO_ACK_THRESHOLD = 1
  MAX_IMG_BLOCK_RSP_RETRY = 2
  MAX_IMG_PAGE_REQ_RETRY = 2
  ReqVersions = {1}
  ReqOffsets = {0, 2, 15}
  ReqDataSizes = {2}
  ReqPageSizes = {1, 3, 7}
  StrayCmds = {"other", "page"}
SPECIFICATION TransferSpec
INVARIANTS PageAccounting
PROPERTIES BlocksFit DataWithinPage
VIEW LiveView
