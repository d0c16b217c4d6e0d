CONSTANTS
  Devices = {d1, d2}
  Nwks = {a1, a2, a3}
  NoAddr = NoAddr
  MAX_RECORDS = 3
SPECIFICATION TableSpec
SYMMETRY RegistrySymmetry
INVARIANT ImageForSelectedDevice
