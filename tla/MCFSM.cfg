SPECIFICATION Spec
CONSTANT Requests <- MCRequests
INVARIANTS
  TypeOK
  NoWrongCombination
  TerminalStateIsLastWord
  NeverGoesBack
  EndsAvailableIffImported
PROPERTIES
  ErrorStateIsLeft
  ImplementsLifecycle
\* The machine is meant to stop: exec returns.
CHECK_DEADLOCK FALSE
