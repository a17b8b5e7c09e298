SPECIFICATION Spec
CONSTANT
  Settings = {TRUE, FALSE}
INVARIANT
  LoggedMeansInitialized
