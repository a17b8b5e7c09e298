SPECIFICATION Spec
CONSTANTS
  Modes <- MCModes
  Inputs <- MCInputs
INVARIANT
  ModeFileIsOptional
\* Settings are read once.
CHECK_DEADLOCK FALSE
