CONSTANTS
  f1 = f1
  f2 = f2
  f3 = f3
  OtaFiles = {f1, f2, f3}
  IndexFiles <- MCIndexFiles
  Garbage = Garbage
  None = None
  MaxInFlight = 2
SPECIFICATION DownloadLiveSpec
INVARIANTS DownloadTypeOK DownloadTimerArmed QueueDistinct WaitsForFront StoredUnderOwnName
PROPERTIES CheckEnds
