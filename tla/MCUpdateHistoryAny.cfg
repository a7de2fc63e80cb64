SPECIFICATION HistorySpec
CONSTANTS
  Device = {d1, d2}
  Version = {1}
  MaxBoot = 2
  Events <- Everything
PROPERTIES
  ResultKept
SYMMETRY DeviceSymmetry
