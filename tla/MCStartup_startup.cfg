CONSTANTS
  StartingEnvs <- MCStartingEnvs
  MaxEdits = 2
  AllTools <- MCTools
SPECIFICATION StartupSpec
CHECK_DEADLOCK FALSE
INVARIANTS AccessInv SettingsInv
