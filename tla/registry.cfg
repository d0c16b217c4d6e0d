CONSTANTS
  Devices = {d1, d2}
  Nwks = {a1, a2, a3, a4}
  NoAddr = NoAddr
  MAX_RECORDS = 3
SPECIFICATION Spec
INVARIANTS RegistryTypeOK UniqueRecords ConfirmFindsRecord ImageForItsDevice
SYMMETRY RegistrySymmetry
VIEW CleanView
