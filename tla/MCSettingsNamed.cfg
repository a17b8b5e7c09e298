SPECIFICATION Spec
CONSTANTS
  Modes <- MCModes
  Inputs <- MCInputs
INVARIANT
  NamedSettingsAreUsed
\* Settings are read once.
CHECK_DEADLOCK FALSE
