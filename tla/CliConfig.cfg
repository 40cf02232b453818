SPECIFICATION CliSpec
CONSTANTS
  Cmd = {"c1"}
  Value = {"v"}
  Unset = Unset
  Environment <- Env
  Options <- Env
  MaxEndpoints = 2
INVARIANT SavedSettingsAreUsed
CHECK_DEADLOCK FALSE
