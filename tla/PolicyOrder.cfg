\* Two configurations, passes of up to one second, one restart.
CONSTANTS
  three = three
  one = one
  None = None
  Torn = Torn
  Config <- Configs
  Intervals <- PollingIntervals
  MaxPass = 1
  MaxRestarts = 1
SPECIFICATION Spec
INVARIANT HeadIsNext
