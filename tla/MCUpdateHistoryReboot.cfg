SPECIFICATION HistorySpec
CONSTANTS
  Device = {d1, d2}
  Version = {1, 2}
  MaxBoot = 3
  Events <- Calm
INVARIANTS
  HistoryTypeOK
  SuccessIsTrue
  UntilReboot
  RebootResolved
