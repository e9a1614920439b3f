\* Two launches: a reset is interrupted in the first.
SPECIFICATION StartupSpec
CONSTANTS
  MaxLaunch = 2
INVARIANTS
  NextLaunchResumes
CHECK_DEADLOCK FALSE
