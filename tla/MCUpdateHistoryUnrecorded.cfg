SPECIFICATION HistorySpec
CONSTANTS
  Device = {d1, d2}
  Version = {1, 2}
  MaxBoot = 2
  Events <- Unrecorded
INVARIANTS
  SuccessIsTrue
