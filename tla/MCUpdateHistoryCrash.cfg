SPECIFICATION HistorySpec
CONSTANTS
  Device = {d1}
  Version = {1, 2}
  MaxBoot = 2
  Events <- Crashes
INVARIANTS
  SuccessIsTrue
