\* A launch that names the cloud model and its alias.
SPECIFICATION StartupSpec
CONSTANTS
  Launches <- FlagLaunches
  Specs <- MCSpecs
INVARIANT CommandLineWins
CHECK_DEADLOCK FALSE
